---------------------------- MODULE Spec2Model ----------------------------
(***************************************************************************)
(* Model of the wellbeing analysis backend.                                *)
(*                                                                         *)
(*  - the primary pipeline, FetchAgentSystem.analyze_data of               *)
(*    fetch_agents.py, called by the /analyze and /sample endpoints of     *)
(*    app.py;                                                              *)
(*  - the pattern-based recommendation generator of exampleAgents.py;      *)
(*  - the sentiment step of the primary pipeline on its own.               *)
(*                                                                         *)
(* Numbers.  sleepHours is a float with one decimal in the requests; the   *)
(* model keeps it in tenths of an hour.  Means are the exact rationals     *)
(* sum/n, kept as the pair (sum, n), so that a comparison of a mean with a *)
(* threshold and Python's int() of an expression of a mean are computed    *)
(* exactly.  Pearson's r is kept as the pair (num, den2) with              *)
(* r = num / sqrt(den2).  Rounded averages, deviations, ratios and scores  *)
(* are hundredths; an undefined deviation (NaN) is a record with           *)
(* defined = FALSE.                                                        *)
(*                                                                         *)
(* Text.  Names are strings in the state; the substring tests of the code  *)
(* ("Sleep" in name) and the keyword counts are computed on their          *)
(* spelling, Chars[name].                                                  *)
(***************************************************************************)
EXTENDS Integers, Sequences, FiniteSets, TLC

VARIABLES
    pc,          \* position of the /analyze endpoint: "idle", "analyzing", "done"
    entries,     \* the entry list of the request in progress (the DataFrame df)
    report,      \* the result of analyze_data for entries
    gpc,         \* position of the pattern-based generator: "idle", "called", "returned"
    pstressors,  \* the stressor list handed to generate_recommendations
    precs,       \* the list generate_recommendations returned
    spc,         \* position of the sentiment step: "idle", "counted", "classified"
    counts,      \* sentiment_counts: the positive and the negative mentions
    sentiment,   \* the label and the ratios computed from counts
    calls,       \* the analyze_data calls on the shared FetchAgentSystem: the
                 \* position and the local variables of each
    session_id,  \* FetchAgentSystem.session_id of the shared instance
    mpc,         \* position of the merge step: "idle", "collected", "merged"
    candidates,  \* the stressors collected by identify_stressors
    merged,      \* merged_stressors
    dpc,         \* position inside identify_patterns: "idle", "called",
                 \* "correlated", "compared", "returned", "raised"
    table,       \* df, the feature table of the call
    found,       \* the local list patterns
    clusters,    \* k of the clustering step
    detected,    \* the list identify_patterns returns
    inbox,       \* the message queue of every agent
    storage,     \* ctx.storage of every agent: the value kept per user
    sent,        \* how many messages of each kind were sent for each user
    issued,      \* the requests of at least one day sent for each user
    stored,      \* how often the client stored analysis_results_<user>
    fallback     \* the client has taken one of its empty defaults

vars == <<pc, entries, report, gpc, pstressors, precs, spc, counts, sentiment,
          calls, session_id, mpc, candidates, merged,
          dpc, table, found, clusters, detected,
          inbox, storage, sent, issued, stored, fallback>>

primaryVars == <<pc, entries, report>>
patternVars == <<gpc, pstressors, precs>>
sentimentVars == <<spc, counts, sentiment>>
stageVars == <<calls, session_id>>
mergeVars == <<mpc, candidates, merged>>
detectorVars == <<dpc, table, found, clusters, detected>>
agentVars == <<inbox, storage, sent, issued, stored, fallback>>

\* the variables an action of one part of the model leaves alone
exceptPrimary == <<patternVars, sentimentVars, stageVars, mergeVars, detectorVars,
    agentVars>>
exceptPattern == <<primaryVars, sentimentVars, stageVars, mergeVars, detectorVars,
    agentVars>>
exceptSentiment == <<primaryVars, patternVars, stageVars, mergeVars, detectorVars,
    agentVars>>
exceptStages == <<primaryVars, patternVars, sentimentVars, mergeVars, detectorVars,
    agentVars>>
exceptMerge == <<primaryVars, patternVars, sentimentVars, stageVars, detectorVars,
    agentVars>>
exceptDetector == <<primaryVars, patternVars, sentimentVars, stageVars, mergeVars,
    agentVars>>
exceptAgents == <<primaryVars, patternVars, sentimentVars, stageVars, mergeVars,
    detectorVars>>

---------------------------------------------------------------------------
(* Bounds of the model and the values the inputs are drawn from.           *)

MaxLen == 3          \* longest entry list
MaxStressors == 3    \* longest stressor list handed to the pattern-based generator
MaxCount == 20      \* most mentions of the positive and of the negative keywords

SleepVals  == {65, 75}         \* sleepHours, in tenths of an hour
ScreenVals == {120, 240}       \* screenTimeMinutes
StepsVals  == {3000, 7000}     \* steps
MoodVals   == {4, 6}           \* mood

Entry == [sleepHours : SleepVals, screenTimeMinutes : ScreenVals,
          steps : StepsVals, mood : MoodVals, energy : {5}, heartRate : {70},
          emotionalState : {""}, dailyJournal : {""}, date : {"2024-01-15"}]

\* entries at and beyond the thresholds and at the ends of the DailyEntry
\* ranges; they are drawn for one-day lists
WideEntry == [sleepHours : {0, 30, 64, 70, 120}, screenTimeMinutes : {0, 180, 181, 600, 1440},
              steps : {0, 4999, 5000, 20000}, mood : {1, 4, 5, 10}, energy : {5},
              heartRate : {70}, emotionalState : {""}, dailyJournal : {""},
              date : {"2024-01-15"}]

\* entries that differ in mood and energy only
MoodEntry == [sleepHours : {75}, screenTimeMinutes : {120}, steps : {7000},
              mood : {3, 5, 7}, energy : {3, 5, 6}, heartRate : {70},
              emotionalState : {""}, dailyJournal : {""}, date : {"2024-01-15"}]

\* entries that differ in mood and heart rate only
HeartEntry == [sleepHours : {75}, screenTimeMinutes : {120}, steps : {7000},
               mood : {3, 5, 7}, energy : {5}, heartRate : {68, 75},
               emotionalState : {""}, dailyJournal : {""}, date : {"2024-01-15"}]

\* entries that differ in their texts only
TextEntry == [sleepHours : {75}, screenTimeMinutes : {120}, steps : {7000},
              mood : {6}, energy : {5}, heartRate : {70},
              emotionalState : {"", "Happy and calm", "unhappy", "stressed and tired"},
              dailyJournal : {"", "good day"}, date : {"2024-01-15"}]

\* entries that differ in their date strings only
DateEntry == [sleepHours : {75}, screenTimeMinutes : {120}, steps : {7000},
              mood : {6}, energy : {5}, heartRate : {70},
              emotionalState : {""}, dailyJournal : {""},
              date : {"2024-01-15", "not-a-date"}]

EntryLists ==
    UNION {[1..n -> Entry] \cup [1..n -> MoodEntry] \cup [1..n -> HeartEntry]
               \cup [1..n -> TextEntry] \cup [1..n -> DateEntry] : n \in 0..MaxLen}
        \cup {<<e>> : e \in WideEntry}

\* sample_entries of the /sample endpoint: today and the two days before it,
\* at midnight
SampleEntries ==
    <<[date |-> "2024-01-15T00:00:00", mood |-> 6, energy |-> 5, steps |-> 7500, screenTimeMinutes |-> 240,
       sleepHours |-> 65, heartRate |-> 72,
       dailyJournal |-> "Had a busy day at work with multiple deadlines. Felt a bit stressed but managed to complete most tasks.",
       emotionalState |-> "Tired but satisfied with progress. Worried about tomorrow's presentation."],
      [date |-> "2024-01-14T00:00:00", mood |-> 7, energy |-> 6, steps |-> 9000, screenTimeMinutes |-> 180,
       sleepHours |-> 72, heartRate |-> 68,
       dailyJournal |-> "Productive day with good team meeting. Went for a walk during lunch break which felt refreshing.",
       emotionalState |-> "Generally positive, though slightly anxious about upcoming deadlines."],
      [date |-> "2024-01-13T00:00:00", mood |-> 4, energy |-> 3, steps |-> 3000, screenTimeMinutes |-> 320,
       sleepHours |-> 55, heartRate |-> 75,
       dailyJournal |-> "Difficult day with technology issues. Spent too much time troubleshooting and fell behind on work.",
       emotionalState |-> "Frustrated and tired. Didn't sleep well last night which made everything harder."]>>

---------------------------------------------------------------------------
(* Arithmetic helpers.                                                     *)

Abs(x) == IF x < 0 THEN -x ELSE x

Min(a, b) == IF a < b THEN a ELSE b

\* Python's int() of the rational num/den (den > 0): truncation toward zero.
Trunc(num, den) == IF num >= 0 THEN num \div den ELSE -((-num) \div den)

\* Python's round() of the rational num/den (den > 0, num >= 0) to an
\* integer: to the nearest, ties to the even neighbour.
RoundHalfEven(num, den) ==
    LET q == num \div den
        r == num % den
    IN  IF 2 * r < den THEN q
        ELSE IF 2 * r > den THEN q + 1
        ELSE IF q % 2 = 0 THEN q ELSE q + 1

RECURSIVE SumSeq(_)
SumSeq(s) == IF s = <<>> THEN 0 ELSE Head(s) + SumSeq(Tail(s))

\* df[col] as a sequence
Column(df, col) == [i \in 1..Len(df) |-> df[i][col]]

\* The sign of a^2 - t^2 * s for a >= 0, t >= 1, s >= 0, computed without
\* forming the products a^2 and t^2 * s (which leave the 32-bit range).
CmpSq(a, t, s) ==
    LET u == a \div t
        v == a % t
        d == s - u * u
    IN  IF u >= 46340 THEN 1
        ELSE IF d < 0 THEN 1
        ELSE IF d = 0 THEN (IF v = 0 THEN 0 ELSE 1)
        ELSE IF d >= 2 * u + 1 THEN -1
        ELSE LET w == 2 * u * v * t + v * v - d * t * t
             IN  IF w > 0 THEN 1 ELSE IF w = 0 THEN 0 ELSE -1

RECURSIVE GCD(_, _)
GCD(a, b) == IF b = 0 THEN a ELSE GCD(b, a % b)

RECURSIVE GCDSeq(_)
GCDSeq(s) == IF s = <<>> THEN 0 ELSE GCD(Head(s), GCDSeq(Tail(s)))

---------------------------------------------------------------------------
(* Text helpers.                                                           *)

Chars ==
    "Sleep Deficit" :> <<"S","l","e","e","p"," ","D","e","f","i","c","i","t">> @@
    "Digital Overload" :> <<"D","i","g","i","t","a","l"," ","O","v","e","r","l","o","a","d">> @@
    "Low Mood Patterns" :> <<"L","o","w"," ","M","o","o","d"," ","P","a","t","t","e","r","n","s">> @@
    "Low Physical Activity" :>
        <<"L","o","w"," ","P","h","y","s","i","c","a","l"," ","A","c","t","i","v","i","t","y">> @@
    "Screen Time Impact" :> <<"S","c","r","e","e","n"," ","T","i","m","e"," ","I","m","p","a","c","t">> @@
    "Sleep Quality Impact" :>
        <<"S","l","e","e","p"," ","Q","u","a","l","i","t","y"," ","I","m","p","a","c","t">> @@
    "Sleep" :> <<"S","l","e","e","p">> @@
    "Digital" :> <<"D","i","g","i","t","a","l">> @@
    "Screen" :> <<"S","c","r","e","e","n">> @@
    "Mood" :> <<"M","o","o","d">> @@
    "Activity" :> <<"A","c","t","i","v","i","t","y">> @@
    "steps" :> <<"s","t","e","p","s">> @@
    "poor_sleep" :> <<"p","o","o","r","_","s","l","e","e","p">> @@
    "excessive_screen_time" :>
        <<"e","x","c","e","s","s","i","v","e","_","s","c","r","e","e","n","_","t","i","m","e">> @@
    "unproductive_screen_time" :>
        <<"u","n","p","r","o","d","u","c","t","i","v","e","_","s","c","r","e","e","n","_","t","i","m","e">> @@
    "sedentary_behavior" :> <<"s","e","d","e","n","t","a","r","y","_","b","e","h","a","v","i","o","r">> @@
    "steps_walked" :> <<"s","t","e","p","s","_","w","a","l","k","e","d">> @@
    "stress" :> <<"s","t","r","e","s","s">> @@
    "sad" :> <<"s","a","d">> @@
    "sleep_quality" :> <<"s","l","e","e","p","_","q","u","a","l","i","t","y">> @@
    "screen_time" :> <<"s","c","r","e","e","n","_","t","i","m","e">> @@
    "sedentary" :> <<"s","e","d","e","n","t","a","r","y">> @@
    "anxious" :> <<"a","n","x","i","o","u","s">> @@
    "overwhelm" :> <<"o","v","e","r","w","h","e","l","m">> @@
    "tired" :> <<"t","i","r","e","d">> @@
    "exhausted" :> <<"e","x","h","a","u","s","t","e","d">> @@
    "happy" :> <<"h","a","p","p","y">> @@
    "joy" :> <<"j","o","y">> @@
    "excited" :> <<"e","x","c","i","t","e","d">> @@
    "great" :> <<"g","r","e","a","t">> @@
    "good" :> <<"g","o","o","d">> @@
    "wonderful" :> <<"w","o","n","d","e","r","f","u","l">> @@
    "pleased" :> <<"p","l","e","a","s","e","d">> @@
    "calm" :> <<"c","a","l","m">> @@
    "unhappy" :> <<"u","n","h","a","p","p","y">> @@
    "depressed" :> <<"d","e","p","r","e","s","s","e","d">> @@
    "upset" :> <<"u","p","s","e","t">> @@
    "down" :> <<"d","o","w","n">> @@
    "angry" :> <<"a","n","g","r","y">> @@
    "mad" :> <<"m","a","d">> @@
    "frustrated" :> <<"f","r","u","s","t","r","a","t","e","d">> @@
    "worried" :> <<"w","o","r","r","i","e","d">> @@
    "stressed" :> <<"s","t","r","e","s","s","e","d">> @@
    "overwhelmed" :> <<"o","v","e","r","w","h","e","l","m","e","d">> @@
    "pressure" :> <<"p","r","e","s","s","u","r","e">> @@
    "burnout" :> <<"b","u","r","n","o","u","t">> @@
    "deadline" :> <<"d","e","a","d","l","i","n","e">> @@
    "workload" :> <<"w","o","r","k","l","o","a","d">> @@
    "anxiety" :> <<"a","n","x","i","e","t","y">> @@
    "" :> <<>> @@
    "Happy and calm" :> <<"H","a","p","p","y"," ","a","n","d"," ","c","a","l","m">> @@
    "stressed and tired" :> <<"s","t","r","e","s","s","e","d"," ","a","n","d"," ","t","i","r","e","d">> @@
    "good day" :> <<"g","o","o","d"," ","d","a","y">> @@
    "Had a busy day at work with multiple deadlines. Felt a bit stressed but managed to complete most tasks." :>
        <<"H","a","d"," ","a"," ","b","u","s","y"," ","d","a","y"," ","a","t"," ","w","o","r","k"," ","w",
          "i","t","h"," ","m","u","l","t","i","p","l","e"," ","d","e","a","d","l","i","n","e","s","."," ",
          "F","e","l","t"," ","a"," ","b","i","t"," ","s","t","r","e","s","s","e","d"," ","b","u","t"," ",
          "m","a","n","a","g","e","d"," ","t","o"," ","c","o","m","p","l","e","t","e"," ","m","o","s","t",
          " ","t","a","s","k","s",".">> @@
    "Tired but satisfied with progress. Worried about tomorrow's presentation." :>
        <<"T","i","r","e","d"," ","b","u","t"," ","s","a","t","i","s","f","i","e","d"," ","w","i","t","h",
          " ","p","r","o","g","r","e","s","s","."," ","W","o","r","r","i","e","d"," ","a","b","o","u","t",
          " ","t","o","m","o","r","r","o","w","'","s"," ","p","r","e","s","e","n","t","a","t","i","o","n",
          ".">> @@
    "Productive day with good team meeting. Went for a walk during lunch break which felt refreshing." :>
        <<"P","r","o","d","u","c","t","i","v","e"," ","d","a","y"," ","w","i","t","h"," ","g","o","o","d",
          " ","t","e","a","m"," ","m","e","e","t","i","n","g","."," ","W","e","n","t"," ","f","o","r"," ",
          "a"," ","w","a","l","k"," ","d","u","r","i","n","g"," ","l","u","n","c","h"," ","b","r","e","a",
          "k"," ","w","h","i","c","h"," ","f","e","l","t"," ","r","e","f","r","e","s","h","i","n","g",".">> @@
    "Generally positive, though slightly anxious about upcoming deadlines." :>
        <<"G","e","n","e","r","a","l","l","y"," ","p","o","s","i","t","i","v","e",","," ","t","h","o","u",
          "g","h"," ","s","l","i","g","h","t","l","y"," ","a","n","x","i","o","u","s"," ","a","b","o","u",
          "t"," ","u","p","c","o","m","i","n","g"," ","d","e","a","d","l","i","n","e","s",".">> @@
    "Difficult day with technology issues. Spent too much time troubleshooting and fell behind on work." :>
        <<"D","i","f","f","i","c","u","l","t"," ","d","a","y"," ","w","i","t","h"," ","t","e","c","h","n",
          "o","l","o","g","y"," ","i","s","s","u","e","s","."," ","S","p","e","n","t"," ","t","o","o"," ",
          "m","u","c","h"," ","t","i","m","e"," ","t","r","o","u","b","l","e","s","h","o","o","t","i","n",
          "g"," ","a","n","d"," ","f","e","l","l"," ","b","e","h","i","n","d"," ","o","n"," ","w","o","r",
          "k",".">> @@
    "Frustrated and tired. Didn't sleep well last night which made everything harder." :>
        <<"F","r","u","s","t","r","a","t","e","d"," ","a","n","d"," ","t","i","r","e","d","."," ","D","i",
          "d","n","'","t"," ","s","l","e","e","p"," ","w","e","l","l"," ","l","a","s","t"," ","n","i","g",
          "h","t"," ","w","h","i","c","h"," ","m","a","d","e"," ","e","v","e","r","y","t","h","i","n","g",
          " ","h","a","r","d","e","r",".">>

UpperToLower ==
    "A" :> "a" @@ "B" :> "b" @@ "C" :> "c" @@ "D" :> "d" @@ "E" :> "e" @@ "F" :> "f" @@
    "G" :> "g" @@ "H" :> "h" @@ "I" :> "i" @@ "J" :> "j" @@ "K" :> "k" @@ "L" :> "l" @@
    "M" :> "m" @@ "N" :> "n" @@ "O" :> "o" @@ "P" :> "p" @@ "Q" :> "q" @@ "R" :> "r" @@
    "S" :> "s" @@ "T" :> "t" @@ "U" :> "u" @@ "V" :> "v" @@ "W" :> "w" @@ "X" :> "x" @@
    "Y" :> "y" @@ "Z" :> "z"

\* str.lower() on a spelling
Lower(cs) == [i \in 1..Len(cs) |->
                 IF cs[i] \in DOMAIN UpperToLower THEN UpperToLower[cs[i]] ELSE cs[i]]

\* Python's `sub in str` on spellings
IsSubstring(sub, cs) ==
    \E i \in 1..(Len(cs) - Len(sub) + 1) : SubSeq(cs, i, i + Len(sub) - 1) = sub

\* `sub in name` for two strings of the program
In(sub, name) == IsSubstring(Chars[sub], Chars[name])

\* `sub in name.lower()`
InLower(sub, name) == IsSubstring(Chars[sub], Lower(Chars[name]))

\* the number of non-overlapping occurrences of sub in cs from position
\* from on, each occurrence taken at the leftmost place after the previous one
RECURSIVE CountFrom(_, _, _)
CountFrom(sub, cs, from) ==
    LET occurrences == {i \in from..(Len(cs) - Len(sub) + 1) :
                            SubSeq(cs, i, i + Len(sub) - 1) = sub}
    IN  IF occurrences = {} THEN 0
        ELSE LET first == CHOOSE i \in occurrences : \A j \in occurrences : i <= j
             IN  1 + CountFrom(sub, cs, first + Len(sub))

\* str.count(keyword)
Count(sub, cs) == CountFrom(sub, cs, 1)

\* ' '.join(parts) on spellings
RECURSIVE JoinSpace(_)
JoinSpace(parts) ==
    IF parts = <<>> THEN <<>>
    ELSE IF Len(parts) = 1 THEN Head(parts)
    ELSE Head(parts) \o <<" ">> \o JoinSpace(Tail(parts))

\* len(text.split()): the number of maximal runs of non-blank characters
WordCount(cs) ==
    Cardinality({i \in 1..Len(cs) : cs[i] /= " " /\ (i = 1 \/ cs[i - 1] = " ")})

\* sum(text.count(keyword) for keyword in keywords)
RECURSIVE Mentions(_, _)
Mentions(keywords, cs) ==
    IF keywords = <<>> THEN 0
    ELSE Count(Chars[Head(keywords)], cs) + Mentions(Tail(keywords), cs)

---------------------------------------------------------------------------
(* Statistics on the columns of the DataFrame.                             *)

\* pandas fills a column for every field of the entries: a DataFrame built
\* from an empty list has no columns at all.
HasColumn(df, col) == Len(df) > 0

\* A column shifted to its minimum and divided by the greatest common
\* divisor of the result; Pearson's r is invariant under both.
Normalised(xs) ==
    LET lo == CHOOSE m \in {xs[i] : i \in 1..Len(xs)} :
                  \A i \in 1..Len(xs) : m <= xs[i]
        sh == [i \in 1..Len(xs) |-> xs[i] - lo]
        g  == GCDSeq(sh)
    IN  IF g = 0 THEN sh ELSE [i \in 1..Len(xs) |-> sh[i] \div g]

\* DataFrame.corr() for the pair of columns xs, ys: Pearson's r as
\* num / sqrt(den2); undefined (NaN) when either column has no variance,
\* which includes every one-row table.
Pearson(xs, ys) ==
    LET n  == Len(xs)
        x  == Normalised(xs)
        y  == Normalised(ys)
        sx == SumSeq(x)
        sy == SumSeq(y)
        dx == n * SumSeq([i \in 1..n |-> x[i] * x[i]]) - sx * sx
        dy == n * SumSeq([i \in 1..n |-> y[i] * y[i]]) - sy * sy
    IN  [defined |-> dx > 0 /\ dy > 0,
         num     |-> n * SumSeq([i \in 1..n |-> x[i] * y[i]]) - sx * sy,
         den2    |-> dx * dy]

\* abs(value) >= p/q and abs(value) > p/q for a defined correlation
AbsGE(r, p, q) == CmpSq(q * Abs(r.num), p, r.den2) >= 0
AbsGT(r, p, q) == CmpSq(q * Abs(r.num), p, r.den2) > 0

\* q hundredths is not above round(abs(value), 2)
RoundsToAtLeast(r, q) ==
    \/ q = 0
    \/ LET c == CmpSq(200 * Abs(r.num), 2 * q - 1, r.den2)
       IN  c > 0 \/ (c = 0 /\ q % 2 = 0)

RECURSIVE LargestRounding(_, _, _)
LargestRounding(r, lo, hi) ==
    IF lo = hi THEN lo
    ELSE LET mid == (lo + hi + 1) \div 2
         IN  IF RoundsToAtLeast(r, mid) THEN LargestRounding(r, mid, hi)
             ELSE LargestRounding(r, lo, mid - 1)

\* round(float(value), 2), in hundredths
Round2(r) ==
    LET q == LargestRounding(r, 0, 100)
    IN  IF r.num < 0 THEN -q ELSE q

\* n * sum(x^2) - sum(x)^2: n * (n - 1) times the sample variance
Deviation(xs) ==
    LET n == Len(xs)
        s == SumSeq(xs)
    IN  n * SumSeq([i \in 1..n |-> xs[i] * xs[i]]) - s * s

\* r is not above round(k * std) for the sample standard deviation
\* std = sqrt(d / m), d = Deviation(xs), m = n * (n - 1)
StdRoundsToAtLeast(d, m, k, r) ==
    \/ r = 0
    \/ LET c == CmpSq((2 * r - 1) * m, 2 * k, d * m)
       IN  c < 0 \/ (c = 0 /\ r % 2 = 0)

RECURSIVE LargestStdRounding(_, _, _, _, _)
LargestStdRounding(d, m, k, lo, hi) ==
    IF lo = hi THEN lo
    ELSE LET mid == (lo + hi + 1) \div 2
         IN  IF StdRoundsToAtLeast(d, m, k, mid) THEN LargestStdRounding(d, m, k, mid, hi)
             ELSE LargestStdRounding(d, m, k, lo, mid - 1)

\* Series.std() (ddof = 1) times k, rounded to an integer; NaN for fewer
\* than two rows. hi bounds the result.
StdTimes(xs, k, hi) ==
    LET n == Len(xs)
    IN  IF n < 2 THEN [defined |-> FALSE, value |-> 0]
        ELSE [defined |-> TRUE,
              value   |-> LargestStdRounding(Deviation(xs), n * (n - 1), k, 0, hi)]

\* round(std, 2) of a column of integers between 0 and 10, in hundredths
Volatility(xs) == StdTimes(xs, 100, 1000)

\* the column's least and greatest value
MinOf(xs) == CHOOSE m \in {xs[i] : i \in 1..Len(xs)} : \A i \in 1..Len(xs) : m <= xs[i]
MaxOf(xs) == CHOOSE m \in {xs[i] : i \in 1..Len(xs)} : \A i \in 1..Len(xs) : m >= xs[i]

---------------------------------------------------------------------------
(* FetchAgentSystem._analyze_physical_data                                 *)
(* sleepHours are tenths of an hour; averages, percentages and the sleep   *)
(* consistency are hundredths.                                             *)

\* round(100 * (1 - min(1, sleep_std / 2)), 2): min(1, nan) is 1, so the
\* undefined deviation of a one-row column gives 0; a deviation of 2 hours
\* (20 tenths) or more gives 0 as well
SleepConsistency(xs) ==
    LET n == Len(xs)
        d == Deviation(xs)
        m == n * (n - 1)
    IN  IF n < 2 THEN 0
        ELSE IF d >= 400 * m THEN 0
        ELSE 10000 - LargestStdRounding(d, m, 500, 0, 10000)

NoSleep == [present |-> FALSE, average |-> 0, consistency |-> 0, deficit |-> FALSE,
            minimum |-> 0, maximum |-> 0]
\* variant: an average of exactly 7 hours counts as a deficit
SleepInsight_le(df) ==
    IF HasColumn(df, "sleepHours")
    THEN LET xs == Column(df, "sleepHours")
         IN  [present     |-> TRUE,
              average     |-> RoundHalfEven(10 * SumSeq(xs), Len(df)),
              consistency |-> SleepConsistency(xs),
              deficit     |-> SumSeq(xs) <= 70 * Len(df),
              minimum     |-> 10 * MinOf(xs),
              maximum     |-> 10 * MaxOf(xs)]
    ELSE NoSleep

\* insights["sleep"]
SleepInsight(df) ==
    IF HasColumn(df, "sleepHours")
    THEN LET xs == Column(df, "sleepHours")
         IN  [present     |-> TRUE,
              average     |-> RoundHalfEven(10 * SumSeq(xs), Len(df)),
              consistency |-> SleepConsistency(xs),
              deficit     |-> SumSeq(xs) < 70 * Len(df),
              minimum     |-> 10 * MinOf(xs),
              maximum     |-> 10 * MaxOf(xs)]
    ELSE NoSleep

\* the rows of df[required_columns].values
Features(df) == {<<df[i].steps, df[i].heartRate, df[i].sleepHours>> : i \in 1..Len(df)}

\* n_clusters of the KMeans call
NClusters == 3

\* variant: fewer rows than clusters are accepted
ActivityOutcomes_any(df) == {TRUE}

\* Whether the try block around the clustering completes. KMeans raises
\* ValueError for fewer rows than clusters. With fewer distinct rows than
\* clusters it leaves clusters empty, and np.bincount(labels_) is shorter
\* than 3 (IndexError) or not depending on which labels the library hands out.
ActivityOutcomes(df) ==
    IF Len(df) < NClusters THEN {FALSE}
    ELSE IF Cardinality(Features(df)) >= NClusters THEN {TRUE}
    ELSE {TRUE, FALSE}

\* insights["activity_patterns"]: present iff the columns exist and the try
\* block completed
ActivityInsight(df, clustered) ==
    [present |-> HasColumn(df, "steps") /\ HasColumn(df, "heartRate")
                     /\ HasColumn(df, "sleepHours") /\ clustered]

NoScreenTime == [present |-> FALSE, average_minutes |-> 0, excessive |-> FALSE,
                 recommended_limit_minutes |-> 180]

\* insights["screen_time"]
ScreenTimeInsight(df) ==
    IF HasColumn(df, "screenTimeMinutes")
    THEN LET xs == Column(df, "screenTimeMinutes")
         IN  [present         |-> TRUE,
              average_minutes |-> RoundHalfEven(100 * SumSeq(xs), Len(df)),
              excessive       |-> SumSeq(xs) > 180 * Len(df),
              recommended_limit_minutes |-> 180]
    ELSE NoScreenTime

_analyze_physical_data(df, clustered) ==
    [sleep             |-> SleepInsight(df),
     activity_patterns |-> ActivityInsight(df, clustered),
     screen_time       |-> ScreenTimeInsight(df)]

---------------------------------------------------------------------------
(* FetchAgentSystem._analyze_emotional_data                                *)
(* Averages, volatilities, ratios and the stress score are hundredths.     *)

\* np.polyfit(np.arange(n), y, 1)[0] as the rational num / den: the
\* least-squares slope over x = 0, 1, .., n - 1 (den > 0 for n >= 2)
Slope(ys) ==
    LET n   == Len(ys)
        sx  == SumSeq([i \in 1..n |-> i - 1])
        sxx == SumSeq([i \in 1..n |-> (i - 1) * (i - 1)])
        sxy == SumSeq([i \in 1..n |-> (i - 1) * ys[i]])
    IN  [num |-> n * sxy - sx * SumSeq(ys), den |-> n * sxx - sx * sx]

\* the least number of rows for which a slope is fitted
TrendMinRows == 3

\* variant: the slope is fitted from two rows on
MoodTrend_two(df) ==
    IF Len(df) >= 2
    THEN LET slope == Slope(Column(df, "mood"))
         IN  IF 10 * slope.num > slope.den THEN "improving"
             ELSE IF 10 * slope.num < -slope.den THEN "declining"
             ELSE "stable"
    ELSE "stable"

\* mood_trend: slope > 0.1, slope < -0.1, or neither
MoodTrend(df) ==
    IF Len(df) >= TrendMinRows
    THEN LET slope == Slope(Column(df, "mood"))
         IN  IF 10 * slope.num > slope.den THEN "improving"
             ELSE IF 10 * slope.num < -slope.den THEN "declining"
             ELSE "stable"
    ELSE "stable"

NoVolatility == [defined |-> FALSE, value |-> 0]

NoMoodPatterns == [present |-> FALSE, average |-> 0, volatility |-> NoVolatility,
                   trend |-> "stable"]

\* insights["mood_patterns"]
MoodPatterns(df) ==
    IF HasColumn(df, "mood")
    THEN LET xs == Column(df, "mood")
         IN  [present    |-> TRUE,
              average    |-> RoundHalfEven(100 * SumSeq(xs), Len(df)),
              volatility |-> Volatility(xs),
              trend      |-> MoodTrend(df)]
    ELSE NoMoodPatterns

NoEnergyPatterns == [present |-> FALSE, average |-> 0, volatility |-> NoVolatility]

\* insights["energy_patterns"]
EnergyPatterns(df) ==
    IF HasColumn(df, "energy")
    THEN LET xs == Column(df, "energy")
         IN  [present    |-> TRUE,
              average    |-> RoundHalfEven(100 * SumSeq(xs), Len(df)),
              volatility |-> Volatility(xs)]
    ELSE NoEnergyPatterns

\* combined_text.lower(): each row's emotionalState and dailyJournal joined
\* by a blank, the rows joined by a blank
CombinedText(df) ==
    Lower(JoinSpace([i \in 1..Len(df) |->
        JoinSpace(<<Chars[df[i].emotionalState], Chars[df[i].dailyJournal]>>)]))

PositiveKeywords ==
    <<"happy", "joy", "excited", "great", "good", "wonderful", "pleased", "calm">>

NegativeKeywords ==
    <<"sad", "unhappy", "depressed", "upset", "down", "angry", "mad", "frustrated",
      "anxious", "worried", "stressed", "overwhelmed">>

StressKeywords ==
    <<"stress", "stressed", "pressure", "overwhelmed", "burnout", "exhausted",
      "tired", "deadline", "workload", "worried", "anxiety">>

\* variant: a positive ratio of exactly 0.6 counts as positive
Sentiment_ge(positive, negative) ==
    LET total == positive + negative
    IN  IF total > 0
        THEN [overall |-> IF 10 * positive >= 6 * total THEN "positive"
                          ELSE IF 10 * positive < 4 * total THEN "negative"
                          ELSE "mixed",
              positive_ratio |-> RoundHalfEven(10000 * positive, total),
              negative_ratio |-> RoundHalfEven(10000 * (total - positive), total)]
        ELSE [overall |-> "neutral", positive_ratio |-> 5000, negative_ratio |-> 5000]

\* the sentiment label and the two ratios from the keyword counts:
\* positive_ratio > 0.6, positive_ratio < 0.4, or neither; "neutral" and
\* 0.5 without any mention
Sentiment(positive, negative) ==
    LET total == positive + negative
    IN  IF total > 0
        THEN [overall |-> IF 10 * positive > 6 * total THEN "positive"
                          ELSE IF 10 * positive < 4 * total THEN "negative"
                          ELSE "mixed",
              positive_ratio |-> RoundHalfEven(10000 * positive, total),
              negative_ratio |-> RoundHalfEven(10000 * (total - positive), total)]
        ELSE [overall |-> "neutral", positive_ratio |-> 5000, negative_ratio |-> 5000]

NoSentiment == [present |-> FALSE, overall |-> "neutral", positive_ratio |-> 0,
                negative_ratio |-> 0]

\* variant: the sentiment is left out when the combined text is blank
SentimentInsight_omit(df) ==
    IF (HasColumn(df, "emotionalState") \/ HasColumn(df, "dailyJournal"))
           /\ WordCount(CombinedText(df)) > 0
    THEN LET text == CombinedText(df)
             s    == Sentiment(Mentions(PositiveKeywords, text),
                               Mentions(NegativeKeywords, text))
         IN  [present |-> TRUE, overall |-> s.overall,
              positive_ratio |-> s.positive_ratio, negative_ratio |-> s.negative_ratio]
    ELSE NoSentiment

\* insights["sentiment"]
SentimentInsight(df) ==
    IF HasColumn(df, "emotionalState") \/ HasColumn(df, "dailyJournal")
    THEN LET text == CombinedText(df)
             s    == Sentiment(Mentions(PositiveKeywords, text),
                               Mentions(NegativeKeywords, text))
         IN  [present |-> TRUE, overall |-> s.overall,
              positive_ratio |-> s.positive_ratio, negative_ratio |-> s.negative_ratio]
    ELSE NoSentiment

NoStressIndicators == [present |-> FALSE, mentions |-> 0, word_count |-> 0,
                       stress_score |-> 0]

\* round(min(10, stress_mentions * 2), 2) if combined_text else 0
StressScore(mentions, text) == IF text /= <<>> THEN 100 * Min(10, mentions * 2) ELSE 0

\* insights["stress_indicators"]
StressIndicators(df) ==
    IF HasColumn(df, "emotionalState") \/ HasColumn(df, "dailyJournal")
    THEN LET text     == CombinedText(df)
             mentions == Mentions(StressKeywords, text)
         IN  [present |-> TRUE, mentions |-> mentions, word_count |-> WordCount(text),
              stress_score |-> StressScore(mentions, text)]
    ELSE NoStressIndicators

_analyze_emotional_data(df) ==
    [mood_patterns     |-> MoodPatterns(df),
     energy_patterns   |-> EnergyPatterns(df),
     sentiment         |-> SentimentInsight(df),
     stress_indicators |-> StressIndicators(df)]

---------------------------------------------------------------------------
(* FetchAgentSystem._find_correlations                                     *)

\* variant: sleepHours listed twice among the candidate metrics
CorrelationMetrics_dup ==
    <<"energy", "steps", "heartRate", "sleepHours", "sleepHours", "screenTimeMinutes">>

\* the candidate metrics, in the order of correlation_columns
CorrelationMetrics == <<"energy", "steps", "heartRate", "sleepHours", "screenTimeMinutes">>
\* variant: a correlation of exactly 0.5 counts as moderate
SignificantCorrelation_ge(df, metric) ==
    LET value == Pearson(Column(df, metric), Column(df, "mood"))
    IN  IF value.defined /\ AbsGE(value, 3, 10)
        THEN <<[metric       |-> metric,
                correlation  |-> Round2(value),
                relationship |-> IF value.num > 0 THEN "positive" ELSE "negative",
                impact       |-> IF AbsGT(value, 7, 10) THEN "strong"
                                 ELSE IF AbsGE(value, 5, 10) THEN "moderate"
                                 ELSE "weak"]>>
        ELSE <<>>

\* one element of significant_correlations, or nothing
SignificantCorrelation(df, metric) ==
    LET value == Pearson(Column(df, metric), Column(df, "mood"))
    IN  IF value.defined /\ AbsGE(value, 3, 10)
        THEN <<[metric       |-> metric,
                correlation  |-> Round2(value),
                relationship |-> IF value.num > 0 THEN "positive" ELSE "negative",
                impact       |-> IF AbsGT(value, 7, 10) THEN "strong"
                                 ELSE IF AbsGT(value, 5, 10) THEN "moderate"
                                 ELSE "weak"]>>
        ELSE <<>>

RECURSIVE SignificantCorrelations(_, _)
SignificantCorrelations(df, metrics) ==
    IF metrics = <<>> THEN <<>>
    ELSE SignificantCorrelation(df, Head(metrics))
             \o SignificantCorrelations(df, Tail(metrics))

\* the dict correlations: empty, or holding the key "mood_factors"
_find_correlations(df) ==
    IF HasColumn(df, "mood")
    THEN [present |-> TRUE, mood_factors |-> SignificantCorrelations(df, CorrelationMetrics)]
    ELSE [present |-> FALSE, mood_factors |-> <<>>]

---------------------------------------------------------------------------
(* FetchAgentSystem._identify_stressors                                    *)

HasName(stressors, name) == \E i \in 1..Len(stressors) : stressors[i].name = name

\* variant: the level rounded to the nearest integer instead of truncated
SleepDeficitLevel_round(sum, n) == Min(10, RoundHalfEven(100 * n - sum, 10 * n))

SleepDeficitLevel(sum, n) == Min(10, Trunc(100 * n - sum, 10 * n))

\* variant: the rule also fires for a mean of exactly 7.0
SleepStressor_le(df) ==
    LET n   == Len(df)
        sum == SumSeq(Column(df, "sleepHours"))
    IN  IF HasColumn(df, "sleepHours") /\ sum <= 70 * n
        THEN <<[name |-> "Sleep Deficit", level |-> SleepDeficitLevel(sum, n)]>>
        ELSE <<>>

SleepStressor(df) ==
    LET n   == Len(df)
        sum == SumSeq(Column(df, "sleepHours"))
    IN  IF HasColumn(df, "sleepHours") /\ sum < 70 * n
        THEN <<[name |-> "Sleep Deficit", level |-> SleepDeficitLevel(sum, n)]>>
        ELSE <<>>

\* variant: the level not capped at 10
DigitalOverloadLevel_nocap(sum, n) == Trunc(sum, 60 * n)

DigitalOverloadLevel(sum, n) == Min(10, Trunc(sum, 60 * n))

ScreenStressor(df) ==
    LET n   == Len(df)
        sum == SumSeq(Column(df, "screenTimeMinutes"))
    IN  IF HasColumn(df, "screenTimeMinutes") /\ sum > 180 * n
        THEN <<[name |-> "Digital Overload", level |-> DigitalOverloadLevel(sum, n)]>>
        ELSE <<>>

LowMoodLevel(sum, n) == 11 - Trunc(sum, n)

\* variant: the rule also fires for a mean of exactly 5.0
MoodStressor_le(df) ==
    LET n   == Len(df)
        sum == SumSeq(Column(df, "mood"))
    IN  IF HasColumn(df, "mood") /\ sum <= 5 * n
        THEN <<[name |-> "Low Mood Patterns", level |-> LowMoodLevel(sum, n)]>>
        ELSE <<>>

MoodStressor(df) ==
    LET n   == Len(df)
        sum == SumSeq(Column(df, "mood"))
    IN  IF HasColumn(df, "mood") /\ sum < 5 * n
        THEN <<[name |-> "Low Mood Patterns", level |-> LowMoodLevel(sum, n)]>>
        ELSE <<>>

LowActivityLevel(sum, n) == Min(10, Trunc(10000 * n - sum, 1000 * n))
\* variant: Low Physical Activity below a mean of 7000 steps
StepsStressor_7000(df) ==
    LET n   == Len(df)
        sum == SumSeq(Column(df, "steps"))
    IN  IF HasColumn(df, "steps") /\ sum < 7000 * n
        THEN <<[name |-> "Low Physical Activity", level |-> LowActivityLevel(sum, n)]>>
        ELSE <<>>

StepsStressor(df) ==
    LET n   == Len(df)
        sum == SumSeq(Column(df, "steps"))
    IN  IF HasColumn(df, "steps") /\ sum < 5000 * n
        THEN <<[name |-> "Low Physical Activity", level |-> LowActivityLevel(sum, n)]>>
        ELSE <<>>

CorrelationLevel(correlation) == Min(10, Abs(correlation) \div 10)

\* variant: Screen Time Impact without the test for Digital Overload
CorrelationStressor_unguarded(stressors, factor) ==
    IF factor.relationship = "negative" /\ factor.impact \in {"moderate", "strong"}
    THEN IF factor.metric = "screenTimeMinutes"
         THEN <<[name |-> "Screen Time Impact", level |-> CorrelationLevel(factor.correlation)]>>
         ELSE IF factor.metric = "sleepHours" /\ ~HasName(stressors, "Sleep Deficit")
         THEN <<[name |-> "Sleep Quality Impact", level |-> CorrelationLevel(factor.correlation)]>>
         ELSE <<>>
    ELSE <<>>

\* the body of the loop over correlations["mood_factors"]
CorrelationStressor(stressors, factor) ==
    IF factor.relationship = "negative" /\ factor.impact \in {"moderate", "strong"}
    THEN IF factor.metric = "screenTimeMinutes" /\ ~HasName(stressors, "Digital Overload")
         THEN <<[name |-> "Screen Time Impact", level |-> CorrelationLevel(factor.correlation)]>>
         ELSE IF factor.metric = "sleepHours" /\ ~HasName(stressors, "Sleep Deficit")
         THEN <<[name |-> "Sleep Quality Impact", level |-> CorrelationLevel(factor.correlation)]>>
         ELSE <<>>
    ELSE <<>>

RECURSIVE CorrelationStressors(_, _)
CorrelationStressors(stressors, factors) ==
    IF factors = <<>> THEN stressors
    ELSE CorrelationStressors(stressors \o CorrelationStressor(stressors, Head(factors)),
                              Tail(factors))

_identify_stressors(df, correlations) ==
    LET thresholds == SleepStressor(df) \o ScreenStressor(df)
                          \o MoodStressor(df) \o StepsStressor(df)
    IN  IF correlations.present
        THEN CorrelationStressors(thresholds, correlations.mood_factors)
        ELSE thresholds

---------------------------------------------------------------------------
(* FetchAgentSystem._generate_recommendations                              *)

\* variant: "high" only above 7
Priority_gt(level) == IF level > 7 THEN "high" ELSE "medium"

Priority(level) == IF level >= 7 THEN "high" ELSE "medium"
\* variant: the second branch tests "Digital" only
StressorRecommendation_digital(stressor) ==
    LET name  == stressor.name
        level == stressor.level
    IN  IF In("Sleep", name)
        THEN <<[target |-> "Sleep Optimization",
                recommendation |-> "Improve sleep quality and duration",
                priority |-> Priority(level)]>>
        ELSE IF In("Digital", name)
        THEN <<[target |-> "Digital Wellbeing",
                recommendation |-> "Reduce screen time and improve digital habits",
                priority |-> Priority(level)]>>
        ELSE IF In("Mood", name)
        THEN <<[target |-> "Mood Enhancement",
                recommendation |-> "Implement strategies to improve emotional wellbeing",
                priority |-> Priority(level)]>>
        ELSE IF In("Activity", name) \/ InLower("steps", name)
        THEN <<[target |-> "Physical Activity",
                recommendation |-> "Gradually increase daily activity",
                priority |-> Priority(level)]>>
        ELSE <<>>

\* the body of the loop over the stressors: the if/elif chain on the name
StressorRecommendation(stressor) ==
    LET name  == stressor.name
        level == stressor.level
    IN  IF In("Sleep", name)
        THEN <<[target |-> "Sleep Optimization",
                recommendation |-> "Improve sleep quality and duration",
                priority |-> Priority(level)]>>
        ELSE IF In("Digital", name) \/ In("Screen", name)
        THEN <<[target |-> "Digital Wellbeing",
                recommendation |-> "Reduce screen time and improve digital habits",
                priority |-> Priority(level)]>>
        ELSE IF In("Mood", name)
        THEN <<[target |-> "Mood Enhancement",
                recommendation |-> "Implement strategies to improve emotional wellbeing",
                priority |-> Priority(level)]>>
        ELSE IF In("Activity", name) \/ InLower("steps", name)
        THEN <<[target |-> "Physical Activity",
                recommendation |-> "Gradually increase daily activity",
                priority |-> Priority(level)]>>
        ELSE <<>>

RECURSIVE StressorRecommendations(_)
StressorRecommendations(stressors) ==
    IF stressors = <<>> THEN <<>>
    ELSE StressorRecommendation(Head(stressors)) \o StressorRecommendations(Tail(stressors))

GeneralWellbeing ==
    [target |-> "General Wellbeing",
     recommendation |-> "Incorporate balanced wellbeing practices",
     priority |-> "medium"]

\* variant: General Wellbeing appended for up to 2 recommendations
NeedsGeneral_le(recommendations) == Len(recommendations) <= 2

\* the limit below which General Wellbeing is appended
NeedsGeneral(recommendations) == Len(recommendations) < 2

_generate_recommendations(stressors, df) ==
    LET recommendations == StressorRecommendations(stressors)
    IN  IF NeedsGeneral(recommendations)
        THEN Append(recommendations, GeneralWellbeing)
        ELSE recommendations

---------------------------------------------------------------------------
(* FetchAgentSystem.analyze_data and the /analyze endpoint                 *)

\* the date strings pd.to_datetime parses
ParsableDates == {"2024-01-15", "2024-01-15T00:00:00", "2024-01-14T00:00:00",
                  "2024-01-13T00:00:00"}

\* pd.to_datetime(df['date']) raises: some date string does not parse
DateRaises(df) ==
    HasColumn(df, "date") /\ \E i \in 1..Len(df) : df[i].date \notin ParsableDates

NoCorrelations == [present |-> FALSE, mood_factors |-> <<>>]

NoPhysical == [sleep |-> NoSleep, activity_patterns |-> [present |-> FALSE],
               screen_time |-> NoScreenTime]

NoEmotional == [mood_patterns |-> NoMoodPatterns, energy_patterns |-> NoEnergyPatterns,
                sentiment |-> NoSentiment, stress_indicators |-> NoStressIndicators]

\* no response yet
NoReport == [kind |-> "none", stressors |-> <<>>, recommendations |-> <<>>,
             physical |-> NoPhysical, emotional |-> NoEmotional,
             correlations |-> NoCorrelations]

\* HTTPException(status_code=500, detail="Analysis failed: ..."): a message
\* and no report
ErrorResult == [kind |-> "error", stressors |-> <<>>, recommendations |-> <<>>,
                physical |-> NoPhysical, emotional |-> NoEmotional,
                correlations |-> NoCorrelations]

\* the analysis pipeline and the report it returns; clustered is the outcome
\* of the try block around the clustering
analyze_data(df, clustered) ==
    LET physical        == _analyze_physical_data(df, clustered)
        emotional       == _analyze_emotional_data(df)
        correlations    == _find_correlations(df)
        stressors       == _identify_stressors(df, correlations)
        recommendations == _generate_recommendations(stressors, df)
    IN  [kind |-> "report", stressors |-> stressors,
         recommendations |-> recommendations,
         physical |-> physical, emotional |-> emotional,
         correlations |-> correlations]

\* the body of the /analyze handler: the report, or the error response when
\* analyze_data raises
analyze_wellbeing_data(es, clustered) ==
    IF DateRaises(es) THEN ErrorResult ELSE analyze_data(es, clustered)

\* POST /analyze arrives: the request is converted to the entry list
Receive ==
    /\ pc = "idle"
    /\ \E e \in EntryLists : entries' = e
    /\ pc' = "analyzing"
    /\ UNCHANGED <<report, exceptPrimary>>

\* agent_system.analyze_data(entries) runs to completion or raises
Analyze ==
    /\ pc = "analyzing"
    /\ \E clustered \in ActivityOutcomes(entries) :
           report' = analyze_wellbeing_data(entries, clustered)
    /\ pc' = "done"
    /\ UNCHANGED <<entries, exceptPrimary>>

\* GET /sample: the pipeline runs on the built-in entries
Sample ==
    /\ pc = "idle"
    /\ entries' = SampleEntries
    /\ \E clustered \in ActivityOutcomes(SampleEntries) :
           report' = analyze_data(SampleEntries, clustered)
    /\ pc' = "done"
    /\ UNCHANGED exceptPrimary

\* the result is returned to the client and the request is over
Respond ==
    /\ pc = "done"
    /\ pc' = "idle"
    /\ entries' = <<>>
    /\ report' = NoReport
    /\ UNCHANGED exceptPrimary

---------------------------------------------------------------------------
(* generate_recommendations of exampleAgents.py (pattern-based variant)    *)

\* the factors of the stressors the generator is called with; identify_stressors
\* returns at most one stressor per factor
Factors == {"poor_sleep", "excessive_screen_time", "unproductive_screen_time",
            "sedentary_behavior", "steps_walked", "stress", "sad", "sleep_quality"}

StressorLists ==
    UNION {{s \in [1..n -> [factor : Factors]] :
               \A i, j \in 1..n : s[i].factor = s[j].factor => i = j} : n \in 0..MaxStressors}

Rec(factor, text) == [stressor |-> factor, recommendation |-> text]

\* the body of the loop over the stressors: the if/elif chain on the factor
FactorRecommendations(stressor) ==
    LET factor == stressor.factor
    IN  IF In("poor_sleep", factor)
        THEN <<Rec(factor, "Establish a consistent sleep schedule"),
               Rec(factor, "Create a relaxing pre-sleep routine")>>
        ELSE IF In("screen_time", factor)
        THEN <<Rec(factor, "Schedule 2-hour blocks of focused work"),
               Rec(factor, "Use app blockers to limit social media use")>>
        ELSE IF In("sedentary", factor) \/ factor = "steps_walked"
        THEN <<Rec(factor, "Set a timer to stand up and walk"),
               Rec(factor, "Schedule 20-30 minute walks")>>
        ELSE IF In("unproductive_screen_time", factor)
        THEN <<Rec(factor, "Use the Pomodoro technique")>>
        ELSE IF \E k \in {"stress", "anxious", "overwhelm", "tired", "exhausted"} : In(k, factor)
        THEN <<Rec(factor, "Practice 10 minutes of mindfulness meditation"),
               Rec(factor, "Schedule worry time")>>
        ELSE <<>>

RECURSIVE SpecificRecommendations(_)
SpecificRecommendations(stressors) ==
    IF stressors = <<>> THEN <<>>
    ELSE FactorRecommendations(Head(stressors)) \o SpecificRecommendations(Tail(stressors))

general_recommendations ==
    <<Rec("general_wellbeing", "Drink water immediately upon waking"),
      Rec("general_wellbeing", "Spend 15 minutes outside in natural light")>>

\* the slice s[:k]
Prefix(s, k) == SubSeq(s, 1, Min(Len(s), IF k < 0 THEN 0 ELSE k))

IsGeneral(r) == r.stressor = "general_wellbeing"
IsSpecific(r) == r.stressor /= "general_wellbeing"

\* variant: the general recommendations added below 7 recommendations
AddsGeneral_seven(recommendations) == Len(recommendations) < 7

\* the general recommendations are added below this many recommendations
AddsGeneral(recommendations) == Len(recommendations) < 5

\* variant: the first 6 specific recommendations kept
TopSpecific_six(specific) == Prefix(specific, 6)

\* specific_recommendations[:4]
TopSpecific(specific) == Prefix(specific, 4)

generate_recommendations(stressors) ==
    LET specificOnly    == SpecificRecommendations(stressors)
        recommendations == IF AddsGeneral(specificOnly)
                           THEN specificOnly \o general_recommendations
                           ELSE specificOnly
        specific        == SelectSeq(recommendations, IsSpecific)
        general         == SelectSeq(recommendations, IsGeneral)
        prioritized     == TopSpecific(specific)
    IN  IF Len(prioritized) < 5
        THEN prioritized \o Prefix(general, 5 - Len(prioritized))
        ELSE prioritized

\* generate_recommendations is called with the stressors of a request
Call ==
    /\ gpc = "idle"
    /\ \E s \in StressorLists : pstressors' = s
    /\ gpc' = "called"
    /\ UNCHANGED <<precs, exceptPattern>>

\* generate_recommendations(stressors) runs to completion
Generate ==
    /\ gpc = "called"
    /\ precs' = generate_recommendations(pstressors)
    /\ gpc' = "returned"
    /\ UNCHANGED <<pstressors, exceptPattern>>

\* the caller has taken the result; the locals of the call are gone
Return ==
    /\ gpc = "returned"
    /\ gpc' = "idle"
    /\ pstressors' = <<>>
    /\ precs' = <<>>
    /\ UNCHANGED exceptPattern

---------------------------------------------------------------------------
(* The sentiment step of _analyze_emotional_data on its own: the keyword   *)
(* counts of a combined text, then the label and the ratios.               *)

NoCounts == [positive |-> 0, negative |-> 0]

Unclassified == [overall |-> "none", positive_ratio |-> 0, negative_ratio |-> 0]

\* the loop over the keywords has filled sentiment_counts
CountKeywords ==
    /\ spc = "idle"
    /\ \E p \in 0..MaxCount, n \in 0..MaxCount :
           counts' = [positive |-> p, negative |-> n]
    /\ spc' = "counted"
    /\ UNCHANGED <<sentiment, exceptSentiment>>

\* the label and the two ratios are computed from the counts
Classify ==
    /\ spc = "counted"
    /\ sentiment' = Sentiment(counts.positive, counts.negative)
    /\ spc' = "classified"
    /\ UNCHANGED <<counts, exceptSentiment>>

\* insights["sentiment"] is stored and the step is over
Store ==
    /\ spc = "classified"
    /\ spc' = "idle"
    /\ counts' = NoCounts
    /\ sentiment' = Unclassified
    /\ UNCHANGED exceptSentiment

---------------------------------------------------------------------------
(* analyze_data of fetch_agents.py stage by stage, and several calls on the *)
(* one FetchAgentSystem instance of app.py.  Every intermediate result is a *)
(* local variable of its call; the instance holds session_id only.          *)

\* the calls in flight on the shared instance
MaxCalls == 2

CallIds == 1..MaxCalls

\* str(uuid.uuid4()) of FetchAgentSystem.__init__
SessionId == "uuid4"

\* variant: stressors are identified before the correlations are found
StageOrder_swapped ==
    <<"physical", "emotional", "stressors", "correlations", "recommendations", "report">>

\* the statements of analyze_data in program order
StageOrder ==
    <<"physical", "emotional", "correlations", "stressors", "recommendations", "report">>

Stages == {StageOrder[i] : i \in 1..Len(StageOrder)}

StageIndex(s) == CHOOSE i \in 1..Len(StageOrder) : StageOrder[i] = s

\* the position a call is at when stage s is the next statement
Before(s) == IF StageIndex(s) = 1 THEN "called" ELSE StageOrder[StageIndex(s) - 1]

NoResult == [report |-> NoReport, session_id |-> ""]

\* no call in progress: no locals
NoCall == [pc |-> "idle", df |-> <<>>, clustered |-> FALSE,
           physical |-> NoPhysical, emotional |-> NoEmotional,
           correlations |-> NoCorrelations, stressors |-> <<>>,
           recommendations |-> <<>>, result |-> NoResult,
           runs |-> [s \in Stages |-> 0]]

\* the entry lists of the staged calls: every family but the cross product
\* of the four thresholds
StageInputs ==
    UNION {[1..n -> MoodEntry] \cup [1..n -> HeartEntry] \cup [1..n -> TextEntry]
               \cup [1..n -> DateEntry] : n \in 0..MaxLen}
        \cup {<<e>> : e \in WideEntry}

\* the entry lists of the concurrent calls: no entry, one day without a
\* stressor or with an unparsable date, one day with every stressor
CallInputs ==
    {<<>>} \cup {<<e>> : e \in DateEntry}
        \cup {<<e>> : e \in {w \in WideEntry : /\ w.sleepHours = 30
                                              /\ w.screenTimeMinutes = 600
                                              /\ w.steps = 0
                                              /\ w.mood = 1}}

\* variant: the result of a stage is kept on the shared instance, so every
\* call sees it
Assign_shared(c, s, field, value) ==
    [k \in CallIds |->
        IF k = c
        THEN [calls[k] EXCEPT ![field] = value, !.pc = s, !.runs[s] = @ + 1]
        ELSE [calls[k] EXCEPT ![field] = value]]

\* stage s of call c assigns its result to a local variable of the call
Assign(c, s, field, value) ==
    [calls EXCEPT ![c] = [@ EXCEPT ![field] = value, !.pc = s, !.runs[s] = @ + 1]]

\* analyze_data(data) is called: the DataFrame is built and the dates are
\* converted, which raises on an unparsable date
CallAnalyze(c, inputs) ==
    /\ calls[c].pc = "idle"
    /\ \E e \in inputs :
           calls' = [calls EXCEPT ![c] =
                        [@ EXCEPT !.df = e,
                                  !.pc = IF DateRaises(e) THEN "raised" ELSE "called"]]
    /\ UNCHANGED <<session_id, exceptStages>>

\* physical_insights = self._analyze_physical_data(df)
PhysicalStage(c) ==
    /\ calls[c].pc = Before("physical")
    /\ \E clustered \in ActivityOutcomes(calls[c].df) :
           calls' = [Assign(c, "physical", "physical",
                            _analyze_physical_data(calls[c].df, clustered))
                        EXCEPT ![c].clustered = clustered]
    /\ UNCHANGED <<session_id, exceptStages>>

\* emotional_insights = self._analyze_emotional_data(df)
EmotionalStage(c) ==
    /\ calls[c].pc = Before("emotional")
    /\ calls' = Assign(c, "emotional", "emotional", _analyze_emotional_data(calls[c].df))
    /\ UNCHANGED <<session_id, exceptStages>>

\* correlations = self._find_correlations(df, physical_insights, emotional_insights)
CorrelationStage(c) ==
    /\ calls[c].pc = Before("correlations")
    /\ calls' = Assign(c, "correlations", "correlations", _find_correlations(calls[c].df))
    /\ UNCHANGED <<session_id, exceptStages>>

\* stressors = self._identify_stressors(df, correlations)
StressorStage(c) ==
    /\ calls[c].pc = Before("stressors")
    /\ calls' = Assign(c, "stressors", "stressors",
                       _identify_stressors(calls[c].df, calls[c].correlations))
    /\ UNCHANGED <<session_id, exceptStages>>

\* recommendations = self._generate_recommendations(stressors, df)
RecommendationStage(c) ==
    /\ calls[c].pc = Before("recommendations")
    /\ calls' = Assign(c, "recommendations", "recommendations",
                       _generate_recommendations(calls[c].stressors, calls[c].df))
    /\ UNCHANGED <<session_id, exceptStages>>

\* the report is assembled from the locals and session_id, and returned
ReportStage(c) ==
    /\ calls[c].pc = Before("report")
    /\ calls' = Assign(c, "report", "result",
                       [report |-> [kind |-> "report",
                                    stressors |-> calls[c].stressors,
                                    recommendations |-> calls[c].recommendations,
                                    physical |-> calls[c].physical,
                                    emotional |-> calls[c].emotional,
                                    correlations |-> calls[c].correlations],
                        session_id |-> session_id])
    /\ UNCHANGED <<session_id, exceptStages>>

\* the caller has taken the report or the exception; the locals are gone
Finish(c) ==
    /\ calls[c].pc \in {"report", "raised"}
    /\ calls' = [calls EXCEPT ![c] = NoCall]
    /\ UNCHANGED <<session_id, exceptStages>>
---------------------------------------------------------------------------
(* The merge at the end of identify_stressors of exampleAgents.py.         *)
(* Strengths are hundredths.                                               *)

\* the candidate stressors collected before the merge
MaxCandidates == 3

\* a correlation stressor: the factor is a column name, the strength is
\* abs(correlation) > 0.3; it has no frequency
CorrelationCandidates ==
    [type : {"correlation_stressor"}, factor : {"screen_time_hours", "sleep_hours"},
     impact_on : {"mood_level", "energy_level"},
     hasStrength : {TRUE}, strength : {35, 60},
     hasFrequency : {FALSE}, frequency : {0}]

\* a stressor of a bad-day cluster: the frequency is the size of the
\* cluster, at least 3; it has no strength
FactorCandidates ==
    [type : {"factor_stressor"}, factor : {"poor_sleep", "sedentary_behavior"},
     impact_on : {""},
     hasStrength : {FALSE}, strength : {0},
     hasFrequency : {TRUE}, frequency : {3, 4}]

\* a keyword stressor: the frequency is the number of journals with the keyword
EmotionalCandidates ==
    [type : {"emotional_stressor"}, factor : {"stress"}, impact_on : {""},
     hasStrength : {FALSE}, strength : {0},
     hasFrequency : {TRUE}, frequency : {2}]

\* the productivity stressor has neither strength nor frequency
ProductivityCandidates ==
    [type : {"productivity_stressor"}, factor : {"unproductive_screen_time"},
     impact_on : {""},
     hasStrength : {FALSE}, strength : {0},
     hasFrequency : {FALSE}, frequency : {0}]

Candidates ==
    CorrelationCandidates \cup FactorCandidates \cup EmotionalCandidates
        \cup ProductivityCandidates

\* the step of identify_stressors that appends stressors of a type
TypeRank(t) ==
    CASE t = "correlation_stressor"  -> 1
      [] t = "factor_stressor"       -> 2
      [] t = "emotional_stressor"    -> 3
      [] t = "productivity_stressor" -> 4

\* the position of a correlation pattern in the two nested loops over
\* numeric_cols and the next-day columns
PatternRank(s) ==
    (IF s.factor = "screen_time_hours" THEN 0 ELSE 2)
        + (IF s.impact_on = "mood_level" THEN 0 ELSE 1)

\* the lists the four steps can build: the steps in order, every pair of
\* columns once and in loop order, every keyword once, one productivity stressor
CandidateLists ==
    UNION {{s \in [1..n -> Candidates] :
               \A i, j \in 1..n :
                   i < j =>
                       /\ TypeRank(s[i].type) <= TypeRank(s[j].type)
                       /\ s[i].type = "correlation_stressor" /\ s[j].type = s[i].type
                              => PatternRank(s[i]) < PatternRank(s[j])
                       /\ s[i].type \in {"emotional_stressor", "productivity_stressor"}
                              => s[j].type /= s[i].type \/ s[j].factor /= s[i].factor}
           : n \in 0..MaxCandidates}

\* the key of max(): the strength if the stressor has one, else the
\* frequency, else 0
MergeKey(s) ==
    IF s.hasStrength THEN s.strength
    ELSE IF s.hasFrequency THEN s.frequency ELSE 0

\* similar = [s for s in stressors if s['factor'] == stressor['factor']]
Similar(stressors, factor) == SelectSeq(stressors, LAMBDA s : s.factor = factor)

\* variant: the first stressor of the factor is kept
BestMatch_first(similar) == similar[1]

\* max(similar, key=...): the first of the stressors with the largest key
BestMatch(similar) ==
    similar[CHOOSE i \in 1..Len(similar) :
                /\ \A j \in 1..Len(similar) : MergeKey(similar[j]) <= MergeKey(similar[i])
                /\ \A j \in 1..(i - 1) : MergeKey(similar[j]) < MergeKey(similar[i])]

\* the loop over the stressors from position i on, added_factors being added
RECURSIVE MergeFrom(_, _, _)
MergeFrom(stressors, i, added) ==
    IF i > Len(stressors) THEN <<>>
    ELSE IF stressors[i].factor \in added THEN MergeFrom(stressors, i + 1, added)
    ELSE LET similar == Similar(stressors, stressors[i].factor)
             kept    == IF Len(similar) > 1 THEN BestMatch(similar) ELSE stressors[i]
         IN  <<kept>> \o MergeFrom(stressors, i + 1, added \cup {stressors[i].factor})

MergeStressors(stressors) == MergeFrom(stressors, 1, {})

\* the four steps of identify_stressors have collected the candidates
Collect ==
    /\ mpc = "idle"
    /\ \E s \in CandidateLists : candidates' = s
    /\ mpc' = "collected"
    /\ UNCHANGED <<merged, exceptMerge>>

\* the merge loop runs to completion
Merge ==
    /\ mpc = "collected"
    /\ merged' = MergeStressors(candidates)
    /\ mpc' = "merged"
    /\ UNCHANGED <<candidates, exceptMerge>>

\* merged_stressors is returned; the locals are gone
ReturnMerged ==
    /\ mpc = "merged"
    /\ mpc' = "idle"
    /\ candidates' = <<>>
    /\ merged' = <<>>
    /\ UNCHANGED exceptMerge
---------------------------------------------------------------------------
(* identify_patterns of exampleAgents.py step by step.  The whole body is   *)
(* one try block: an exception in any step returns the empty list.          *)

\* the days of a feature table
MaxDays == 7

\* the days of the tables: a good day, a bad day with much screen time and
\* few steps, and a middling day with much screen time and many steps.  The
\* heart rate, the productivity, the sleep hours and the activity hours are
\* the same on every day.
GoodDay == [heart_rate_avg |-> 70, screen_time_hours |-> 2, screen_time_productivity |-> 8,
            steps_walked |-> 9000, sleep_hours |-> 7, sleep_quality |-> 8,
            energy_level |-> 8, mood_level |-> 8]
BadDay == [heart_rate_avg |-> 70, screen_time_hours |-> 5, screen_time_productivity |-> 8,
           steps_walked |-> 3000, sleep_hours |-> 7, sleep_quality |-> 5,
           energy_level |-> 4, mood_level |-> 4]
ScreenDay == [heart_rate_avg |-> 70, screen_time_hours |-> 5, screen_time_productivity |-> 8,
              steps_walked |-> 9000, sleep_hours |-> 7, sleep_quality |-> 8,
              energy_level |-> 6, mood_level |-> 6]

DayKinds == {GoodDay, BadDay, ScreenDay}

Tables == UNION {[1..n -> DayKinds] : n \in 1..MaxDays}

NoTable == <<>>

numeric_cols ==
    <<"heart_rate_avg", "screen_time_hours", "screen_time_productivity", "steps_walked",
      "sleep_hours", "sleep_quality", "energy_level", "mood_level">>

\* the columns shifted by -1, named by the column they are shifted from
next_day_cols == <<"mood_level", "energy_level", "sleep_quality">>

Pattern(type, factor, target, sign, quality, frequency) ==
    [type |-> type, factor |-> factor, target |-> target, sign |-> sign,
     day_quality |-> quality, frequency |-> frequency]

\* correlation_matrix.loc[col1, col2 + '_next_day'] over df.iloc[:-1]: the
\* column of a day against the shifted column of the following day
LaggedCorrelation(df, col1, col2) ==
    LET n == Len(df)
    IN  IF n < 2 THEN [defined |-> FALSE, num |-> 0, den2 |-> 0]
        ELSE Pearson([i \in 1..(n - 1) |-> df[i][col1]],
                     [i \in 1..(n - 1) |-> df[i + 1][col2]])

\* one pass of the inner loop: a pattern if abs(corr) > 0.3
CorrelationPattern(df, col1, col2) ==
    LET corr == LaggedCorrelation(df, col1, col2)
    IN  IF corr.defined /\ AbsGT(corr, 3, 10)
        THEN <<Pattern("correlation", col1, col2,
                       IF corr.num > 0 THEN 1 ELSE -1, "", 0)>>
        ELSE <<>>

RECURSIVE CorrelationPatternsFrom(_, _, _)
CorrelationPatternsFrom(df, i, j) ==
    IF i > Len(numeric_cols) THEN <<>>
    ELSE IF j > Len(next_day_cols) THEN CorrelationPatternsFrom(df, i + 1, 1)
    ELSE CorrelationPattern(df, numeric_cols[i], next_day_cols[j])
             \o CorrelationPatternsFrom(df, i, j + 1)

\* step 1: the two nested loops over the correlation matrix
CorrelationPatterns(df) == CorrelationPatternsFrom(df, 1, 1)

\* the rows of the split: df[col] > threshold, and the others
HighRows(df, col, threshold) == {i \in 1..Len(df) : df[i][col] > threshold}
LowRows(df, col, threshold) == {i \in 1..Len(df) : ~(df[i][col] > threshold)}

RECURSIVE SumOver(_, _, _)
SumOver(df, rows, col) ==
    IF rows = {} THEN 0
    ELSE LET i == CHOOSE r \in rows : TRUE
         IN  df[i][col] + SumOver(df, rows \ {i}, col)

\* abs(mean(high) - mean(low)) > 0.5; the mean of no row is NaN and the
\* comparison with NaN is false
MeansDiffer(df, high, low, col) ==
    /\ high /= {}
    /\ low /= {}
    /\ 2 * Abs(SumOver(df, high, col) * Cardinality(low)
                   - SumOver(df, low, col) * Cardinality(high))
           > Cardinality(high) * Cardinality(low)

\* the least number of days above the threshold, exclusive
MinHighDays == 5

\* one threshold analysis: the rows above the threshold are counted, the
\* means of the effect column in the two groups are compared
ThresholdPattern(df, col, threshold, effect) ==
    LET high == HighRows(df, col, threshold)
        low  == LowRows(df, col, threshold)
    IN  IF Cardinality(high) > MinHighDays /\ MeansDiffer(df, high, low, effect)
        THEN <<Pattern("threshold", col, effect,
                       IF SumOver(df, high, effect) * Cardinality(low)
                              > SumOver(df, low, effect) * Cardinality(high)
                       THEN 1 ELSE -1, "", 0)>>
        ELSE <<>>

\* step 2: screen time above 3 hours on sleep quality, steps above 8000 on mood
ThresholdPatterns(df) ==
    ThresholdPattern(df, "screen_time_hours", 3, "sleep_quality")
        \o ThresholdPattern(df, "steps_walked", 8000, "mood_level")

\* k = min(5, len(df) // 5)
ClusterCount(n) == Min(5, n \div 5)

\* kmeans.fit_predict: the label of every row; which rows share a cluster
\* is the library's choice
Labelings(n, k) == [1..n -> 0..(k - 1)]

\* 'good' if day_quality > 7 else 'bad' if day_quality < 5 else 'average',
\* day_quality being (mean mood + mean energy) / 2 over the rows
DayQuality(df, rows) ==
    LET total == SumOver(df, rows, "mood_level") + SumOver(df, rows, "energy_level")
        n     == Cardinality(rows)
    IN  IF total > 14 * n THEN "good"
        ELSE IF total < 10 * n THEN "bad"
        ELSE "average"

\* the least number of days of a reported cluster
MinClusterDays == 3

RECURSIVE ClusterPatternsFrom(_, _, _, _)
ClusterPatternsFrom(df, labels, i, k) ==
    IF i >= k THEN <<>>
    ELSE LET cluster_days == {r \in 1..Len(df) : labels[r] = i}
         IN  (IF Cardinality(cluster_days) >= MinClusterDays
              THEN <<Pattern("cluster", "", "", 0, DayQuality(df, cluster_days),
                             Cardinality(cluster_days))>>
              ELSE <<>>)
                 \o ClusterPatternsFrom(df, labels, i + 1, k)

\* identify_patterns(df) is called
Detect ==
    /\ dpc = "idle"
    /\ \E t \in Tables : table' = t
    /\ dpc' = "called"
    /\ UNCHANGED <<found, clusters, detected, exceptDetector>>

\* step 1 appends the correlation patterns
CorrelationStep ==
    /\ dpc = "called"
    /\ found' = CorrelationPatterns(table)
    /\ dpc' = "correlated"
    /\ UNCHANGED <<table, clusters, detected, exceptDetector>>

\* step 2 appends the threshold patterns
ThresholdStep ==
    /\ dpc = "correlated"
    /\ found' = found \o ThresholdPatterns(table)
    /\ dpc' = "compared"
    /\ UNCHANGED <<table, clusters, detected, exceptDetector>>

\* step 3: KMeans(n_clusters=k) raises for k = 0 and the except clause
\* returns the empty list; otherwise the clusters of at least 3 days are
\* appended and the patterns are returned
ClusterStep ==
    /\ dpc = "compared"
    /\ LET k == ClusterCount(Len(table))
       IN  IF k < 1
           THEN /\ clusters' = k
                /\ detected' = <<>>
                /\ dpc' = "raised"
                /\ UNCHANGED found
           ELSE \E labels \in Labelings(Len(table), k) :
                    /\ clusters' = k
                    /\ found' = found \o ClusterPatternsFrom(table, labels, 0, k)
                    /\ detected' = found'
                    /\ dpc' = "returned"
    /\ UNCHANGED <<table, exceptDetector>>

\* the caller has taken the list; the locals are gone
ReturnPatterns ==
    /\ dpc \in {"returned", "raised"}
    /\ dpc' = "idle"
    /\ table' = NoTable
    /\ found' = <<>>
    /\ clusters' = 0
    /\ detected' = <<>>
    /\ UNCHANGED exceptDetector
---------------------------------------------------------------------------
(* The four agents of exampleAgents.py: data collection, pattern analysis, *)
(* recommendation and client.  Every agent handles the messages of its     *)
(* queue one at a time; the agents run concurrently.  The health data of a *)
(* request is random: it is represented by the stressors its analysis      *)
(* finds.                                                                  *)

\* the AnalysisRequest messages sent to the data collection agent
MaxRequests == 2

Users == {"u1", "u2"}

Agents == {"data", "pattern", "recommendation", "client"}

\* msg.time_period of the requests: no day, or a week
Periods == {0, 7}

\* generate_mock_health_data(user, 0): the empty list
EmptyData == [days |-> 0, contains |-> <<>>]

\* what identify_stressors finds in the data of a request
DataStressors == {<<>>, <<[factor |-> "poor_sleep"]>>, <<[factor |-> "stress"]>>}

\* generate_mock_health_data(user_id, days): random data of that many days
generate_mock_health_data(days) ==
    IF days = 0 THEN {EmptyData}
    ELSE {[days |-> days, contains |-> s] : s \in DataStressors}

MessageKinds == <<"AnalysisRequest", "HealthData", "RecommendationRequest", "AnalysisComplete">>

NoValue == [present |-> FALSE, stressors |-> <<>>, recommendations |-> <<>>]

Stored(stressors, recommendations) ==
    [present |-> TRUE, stressors |-> stressors, recommendations |-> recommendations]

\* ctx.send(agent.address, message)
Send(boxes, agent, message) == [boxes EXCEPT ![agent] = Append(@, message)]

\* the message being handled leaves the queue of its agent
Take(agent) == [inbox EXCEPT ![agent] = Tail(@)]

Counted(kind, user) == [sent EXCEPT ![kind][user] = @ + 1]

RequestsSent ==
    LET RECURSIVE Total(_)
        Total(us) == IF us = {} THEN 0
                     ELSE LET u == CHOOSE x \in us : TRUE
                          IN  sent["AnalysisRequest"][u] + Total(us \ {u})
    IN  Total(Users)

\* variant: the recommendations are not stored before AnalysisComplete is sent
StoreRecommendations_skip(user, recommendations) == storage

\* ctx.storage.set(f"recommendations_{user_id}", json.dumps(recommendations))
StoreRecommendations(user, recommendations) ==
    [storage EXCEPT !["recommendation"][user] = Stored(<<>>, recommendations)]

\* an AnalysisRequest is sent to the data collection agent
SendRequest ==
    /\ RequestsSent < MaxRequests
    /\ \E u \in Users, p \in Periods :
           /\ inbox' = Send(inbox, "data",
                            [kind |-> "AnalysisRequest", user_id |-> u, time_period |-> p,
                             data |-> EmptyData, stressors |-> <<>>])
           /\ sent' = Counted("AnalysisRequest", u)
           /\ issued' = IF p >= 1 THEN [issued EXCEPT ![u] = @ + 1] ELSE issued
    /\ UNCHANGED <<storage, stored, fallback, exceptAgents>>

\* handle_analysis_request: the data are generated, stored and sent on
handle_analysis_request ==
    /\ inbox["data"] /= <<>>
    /\ LET msg == Head(inbox["data"])
       IN  \E health_data \in generate_mock_health_data(msg.time_period) :
               /\ storage' = [storage EXCEPT !["data"][msg.user_id] =
                                  Stored(health_data.contains, <<>>)]
               /\ inbox' = Send(Take("data"), "pattern",
                                [kind |-> "HealthData", user_id |-> msg.user_id,
                                 time_period |-> msg.time_period,
                                 data |-> health_data, stressors |-> <<>>])
               /\ sent' = Counted("HealthData", msg.user_id)
    /\ UNCHANGED <<issued, stored, fallback, exceptAgents>>

\* analyze_patterns: msg.data[0] raises IndexError on empty data and the
\* handler ends; otherwise the patterns and stressors are found, stored and
\* the stressors sent on
analyze_patterns ==
    /\ inbox["pattern"] /= <<>>
    /\ LET msg == Head(inbox["pattern"])
       IN  IF msg.data.days = 0
           THEN /\ inbox' = Take("pattern")
                /\ UNCHANGED <<storage, sent>>
           ELSE /\ storage' = [storage EXCEPT !["pattern"][msg.user_id] =
                                   Stored(msg.data.contains, <<>>)]
                /\ inbox' = Send(Take("pattern"), "recommendation",
                                 [kind |-> "RecommendationRequest", user_id |-> msg.user_id,
                                  time_period |-> msg.time_period,
                                  data |-> EmptyData, stressors |-> msg.data.contains])
                /\ sent' = Counted("RecommendationRequest", msg.user_id)
    /\ UNCHANGED <<issued, stored, fallback, exceptAgents>>

\* generate_recommendations_handler: the recommendations are generated from
\* the stressors of the message, stored, and the client is notified
generate_recommendations_handler ==
    /\ inbox["recommendation"] /= <<>>
    /\ LET msg == Head(inbox["recommendation"])
           recommendations == generate_recommendations(msg.stressors)
       IN  /\ storage' = StoreRecommendations(msg.user_id, recommendations)
           /\ inbox' = Send(Take("recommendation"), "client",
                            [kind |-> "AnalysisComplete", user_id |-> msg.user_id,
                             time_period |-> msg.time_period,
                             data |-> EmptyData, stressors |-> <<>>])
           /\ sent' = Counted("AnalysisComplete", msg.user_id)
    /\ UNCHANGED <<issued, stored, fallback, exceptAgents>>

\* handle_analysis_complete: the client reads what the two agents hold for
\* the user at this moment, with empty defaults, and stores the combination
handle_analysis_complete ==
    /\ inbox["client"] /= <<>>
    /\ LET msg             == Head(inbox["client"])
           analysis        == storage["pattern"][msg.user_id]
           recommendations == storage["recommendation"][msg.user_id]
       IN  /\ storage' = [storage EXCEPT !["client"][msg.user_id] =
                              Stored(IF analysis.present THEN analysis.stressors ELSE <<>>,
                                     IF recommendations.present
                                     THEN recommendations.recommendations ELSE <<>>)]
           /\ fallback' = (fallback \/ ~analysis.present \/ ~recommendations.present)
           /\ stored' = [stored EXCEPT ![msg.user_id] = @ + 1]
           /\ inbox' = Take("client")
    /\ UNCHANGED <<issued, sent, exceptAgents>>

Init ==
    /\ pc = "idle"
    /\ entries = <<>>
    /\ report = NoReport
    /\ gpc = "idle"
    /\ pstressors = <<>>
    /\ precs = <<>>
    /\ spc = "idle"
    /\ counts = NoCounts
    /\ sentiment = Unclassified
    /\ calls = [c \in CallIds |-> NoCall]
    /\ session_id = SessionId
    /\ mpc = "idle"
    /\ candidates = <<>>
    /\ merged = <<>>
    /\ dpc = "idle"
    /\ table = NoTable
    /\ found = <<>>
    /\ clusters = 0
    /\ detected = <<>>
    /\ inbox = [a \in Agents |-> <<>>]
    /\ storage = [a \in Agents |-> [u \in Users |-> NoValue]]
    /\ sent = [k \in {MessageKinds[i] : i \in 1..Len(MessageKinds)} |-> [u \in Users |-> 0]]
    /\ issued = [u \in Users |-> 0]
    /\ stored = [u \in Users |-> 0]
    /\ fallback = FALSE

Next ==
    \/ Receive
    \/ Sample
    \/ Analyze
    \/ Respond

Spec == Init /\ [][Next]_vars

NextPattern ==
    \/ Call
    \/ Generate
    \/ Return

SpecPattern == Init /\ [][NextPattern]_vars

\* the two programs, one request at a time in either
NextGenerators ==
    \/ gpc = "idle" /\ Next
    \/ pc = "idle" /\ NextPattern

SpecGenerators == Init /\ [][NextGenerators]_vars

\* the sentiment step on every pair of counts
NextSentiment ==
    \/ CountKeywords
    \/ Classify
    \/ Store

SpecSentiment == Init /\ [][NextSentiment]_vars

\* one analyze_data call at a time, stage by stage
NextStages ==
    \/ CallAnalyze(1, StageInputs)
    \/ PhysicalStage(1)
    \/ EmotionalStage(1)
    \/ CorrelationStage(1)
    \/ StressorStage(1)
    \/ RecommendationStage(1)
    \/ ReportStage(1)
    \/ Finish(1)

SpecStages == Init /\ [][NextStages]_vars

\* several calls on the shared instance, interleaved between any two stages
NextCalls ==
    \E c \in CallIds :
        \/ CallAnalyze(c, CallInputs)
        \/ PhysicalStage(c)
        \/ EmotionalStage(c)
        \/ CorrelationStage(c)
        \/ StressorStage(c)
        \/ RecommendationStage(c)
        \/ ReportStage(c)
        \/ Finish(c)

SpecCalls == Init /\ [][NextCalls]_vars

\* the merge step on every list of candidates
NextMerge ==
    \/ Collect
    \/ Merge
    \/ ReturnMerged

SpecMerge == Init /\ [][NextMerge]_vars

\* identify_patterns on every table, step by step
NextDetector ==
    \/ Detect
    \/ CorrelationStep
    \/ ThresholdStep
    \/ ClusterStep
    \/ ReturnPatterns

SpecDetector == Init /\ [][NextDetector]_vars

\* the agents, each handling the first message of its queue
NextAgents ==
    \/ SendRequest
    \/ handle_analysis_request
    \/ analyze_patterns
    \/ generate_recommendations_handler
    \/ handle_analysis_complete

SpecAgents == Init /\ [][NextAgents]_vars

\* every agent keeps handling the messages of its queue
AgentsFairness ==
    /\ WF_vars(handle_analysis_request)
    /\ WF_vars(analyze_patterns)
    /\ WF_vars(generate_recommendations_handler)
    /\ WF_vars(handle_analysis_complete)

SpecAgentsFair == SpecAgents /\ AgentsFairness

---------------------------------------------------------------------------
(* Properties of the primary pipeline.                                     *)

\* the report of the request in progress has been produced
Analyzed == pc = "done" /\ report.kind = "report"

Stressors == report.stressors
Recommendations == report.recommendations

N == Len(entries)
SleepSum == SumSeq(Column(entries, "sleepHours"))
MoodSum == SumSeq(Column(entries, "mood"))

StressorNamed(name) == CHOOSE s \in {Stressors[i] : i \in 1..Len(Stressors)} : s.name = name

\* C1: for every entry list of length >= 1, the stressors of the report
\* never hold two entries with the same name.
C1_UniqueStressorNames ==
    (Analyzed /\ N >= 1) =>
        \A i, j \in 1..Len(Stressors) : Stressors[i].name = Stressors[j].name => i = j

\* a report with a threshold stressor and both correlation-derived stressors
C1_Witness ==
    /\ Analyzed /\ N >= 1
    /\ Len(Stressors) >= 3
    /\ HasName(Stressors, "Screen Time Impact")
    /\ HasName(Stressors, "Sleep Quality Impact")

\* C2: "Sleep Deficit" is emitted if and only if the mean of sleepHours is
\* strictly below 7.0 (sum of the tenths below 70 per row; a mean of exactly
\* 7.0 does not fire), and when emitted its level lies in 0..10.
C2_SleepDeficitIffBelow7 ==
    Analyzed =>
        /\ HasName(Stressors, "Sleep Deficit") <=> (N >= 1 /\ SleepSum < 70 * N)
        /\ HasName(Stressors, "Sleep Deficit") =>
               StressorNamed("Sleep Deficit").level \in 0..10

\* a report of several days whose mean sleep is below 7.0, with the stressor
C2_Witness ==
    /\ Analyzed /\ N >= 2
    /\ SleepSum < 70 * N
    /\ HasName(Stressors, "Sleep Deficit")

\* C3: for entries within the DailyEntry ranges, every stressor of the
\* report has an integer level in 0..10.
C3_LevelsInRange ==
    Analyzed => \A i \in 1..Len(Stressors) : Stressors[i].level \in 0..10

\* a report for a day at the ends of the ranges: a whole day of screen time,
\* no sleep, no steps and the lowest mood, every level being 10
C3_Witness ==
    /\ Analyzed
    /\ N = 1 /\ entries[1].screenTimeMinutes = 1440
    /\ Len(Stressors) = 4
    /\ \A i \in 1..Len(Stressors) : Stressors[i].level = 10

\* C4 as stated: the level of Sleep Deficit is min(10, round(10 - meanSleep)),
\* rounding to the nearest integer.
C4_Original ==
    (Analyzed /\ HasName(Stressors, "Sleep Deficit")) =>
        StressorNamed("Sleep Deficit").level
            = Min(10, RoundHalfEven(100 * N - SleepSum, 10 * N))

\* C4 amended: the level of Sleep Deficit is min(10, int(10 - meanSleep)):
\* the largest integer L <= 10 with L <= 10 - meanSleep (truncation, not
\* rounding to the nearest).
C4_SleepDeficitLevelTruncates ==
    (Analyzed /\ HasName(Stressors, "Sleep Deficit")) =>
        LET L == StressorNamed("Sleep Deficit").level
        IN  /\ L \in 0..10
            /\ 10 * N * L <= 100 * N - SleepSum
            /\ L < 10 => 100 * N - SleepSum < 10 * N * (L + 1)

\* a Sleep Deficit whose 10 - meanSleep is not an integer (here 3.5 or 3.17)
C4_Witness ==
    /\ Analyzed
    /\ HasName(Stressors, "Sleep Deficit")
    /\ (100 * N - SleepSum) % (10 * N) /= 0

\* C5 as stated: "Low Mood Patterns" is emitted iff the mean mood is below
\* 5.0 and its level is 11 - round(meanMood), rounding to the nearest integer.
C5_Original ==
    Analyzed =>
        /\ HasName(Stressors, "Low Mood Patterns") <=> (N >= 1 /\ MoodSum < 5 * N)
        /\ HasName(Stressors, "Low Mood Patterns") =>
               StressorNamed("Low Mood Patterns").level = 11 - RoundHalfEven(MoodSum, N)

\* C5 amended: "Low Mood Patterns" is emitted iff the mean mood is strictly
\* below 5.0 and its level is 11 - int(meanMood), the mean truncated to an
\* integer: with F = 11 - level, F <= meanMood < F + 1.
C5_LowMoodLevelTruncates ==
    Analyzed =>
        /\ HasName(Stressors, "Low Mood Patterns") <=> (N >= 1 /\ MoodSum < 5 * N)
        /\ HasName(Stressors, "Low Mood Patterns") =>
               LET F == 11 - StressorNamed("Low Mood Patterns").level
               IN  F * N <= MoodSum /\ MoodSum < (F + 1) * N

\* a Low Mood Patterns stressor for a mean mood that is not an integer (14/3)
C5_Witness ==
    /\ Analyzed
    /\ HasName(Stressors, "Low Mood Patterns")
    /\ MoodSum % N /= 0

NegativeFactor(metric) ==
    \E i \in 1..Len(report.correlations.mood_factors) :
        LET f == report.correlations.mood_factors[i]
        IN  /\ f.metric = metric
            /\ f.relationship = "negative"
            /\ f.impact \in {"moderate", "strong"}

\* C6: "Screen Time Impact" appears only with a negative, moderate or strong
\* mood factor for screenTimeMinutes and without "Digital Overload", and
\* "Sleep Quality Impact" only with such a factor for sleepHours and without
\* "Sleep Deficit".
C6_CorrelationStressorsGuarded ==
    Analyzed =>
        /\ HasName(Stressors, "Screen Time Impact") =>
               NegativeFactor("screenTimeMinutes") /\ ~HasName(Stressors, "Digital Overload")
        /\ HasName(Stressors, "Sleep Quality Impact") =>
               NegativeFactor("sleepHours") /\ ~HasName(Stressors, "Sleep Deficit")

\* a report where one correlation-derived stressor is emitted and the other
\* is held back by its threshold stressor
C6_Witness ==
    /\ Analyzed
    /\ NegativeFactor("screenTimeMinutes") /\ NegativeFactor("sleepHours")
    /\ HasName(Stressors, "Digital Overload")
    /\ HasName(Stressors, "Sleep Quality Impact")

\* C7: the recommendation built from a stressor has priority "high" iff the
\* level of that stressor is >= 7 and "medium" otherwise; General Wellbeing
\* always has priority "medium".
C7_PriorityFollowsLevel ==
    Analyzed =>
        /\ Len(Recommendations) >= Len(Stressors)
        /\ \A i \in 1..Len(Stressors) :
               /\ Recommendations[i].priority \in {"high", "medium"}
               /\ Recommendations[i].priority = "high" <=> Stressors[i].level >= 7
        /\ \A i \in 1..Len(Recommendations) :
               Recommendations[i].target = "General Wellbeing"
                   => Recommendations[i].priority = "medium"

\* a report with a high recommendation for a level of exactly 7 and a medium
\* one for a lower level
C7_Witness ==
    /\ Analyzed
    /\ \E i, j \in 1..Len(Stressors) :
           /\ Stressors[i].level = 7 /\ Recommendations[i].priority = "high"
           /\ Stressors[j].level < 7 /\ Recommendations[j].priority = "medium"

GeneralPositions ==
    {i \in 1..Len(Recommendations) : Recommendations[i].target = "General Wellbeing"}

\* C8: General Wellbeing is appended exactly once, as the last element, iff
\* fewer than 2 recommendations were produced from the stressors, and is
\* absent otherwise.
C8_GeneralIffFewerThan2 ==
    Analyzed =>
        LET fromStressors == Len(Recommendations) - Cardinality(GeneralPositions)
        IN  IF fromStressors < 2
            THEN GeneralPositions = {Len(Recommendations)}
            ELSE GeneralPositions = {}

\* a report with one stressor-driven recommendation followed by General Wellbeing
C8_Witness ==
    /\ Analyzed
    /\ Len(Stressors) = 1
    /\ Len(Recommendations) = 2
    /\ Recommendations[1].target /= "General Wellbeing"
    /\ Recommendations[2].target = "General Wellbeing"

---------------------------------------------------------------------------
(* Properties of the recommendation generators.                            *)

Generated == gpc = "returned"

\* C9: for a non-empty stressor list both generators return at least 1
\* recommendation, and the pattern-based one never more than 5.
C9_RecommendationCount ==
    /\ (Analyzed /\ Stressors /= <<>>) => Len(Recommendations) >= 1
    /\ (Generated /\ pstressors /= <<>>) => (Len(precs) >= 1 /\ Len(precs) <= 5)

\* the pattern-based generator returned for stressors that gave more than 5
\* specific recommendations
C9_Witness ==
    /\ Generated
    /\ Len(SpecificRecommendations(pstressors)) > 5
    /\ Len(precs) >= 1

SpecificCount == Len(SelectSeq(precs, IsSpecific))
GeneralCount == Len(SelectSeq(precs, IsGeneral))

SpecificPrecedeGeneral ==
    \A i, j \in 1..Len(precs) : (IsSpecific(precs[i]) /\ IsGeneral(precs[j])) => i < j

\* C10 as stated: the result is the first up-to-4 specific recommendations
\* followed by general ones, padded with general ones so that it reaches 5.
C10_Original ==
    (Generated /\ pstressors /= <<>>) =>
        /\ SpecificPrecedeGeneral
        /\ SpecificCount <= 4
        /\ Len(precs) = 5

\* C10 amended: with s specific recommendations produced, the result is the
\* first min(s, 4) of them followed by g general ones, where g is
\* min(2, 5 - min(s, 4)) when s < 5 and 0 otherwise; it has at most 5 items
\* and exactly 5 only when s is 3 or 4.
C10_SpecificThenGeneral ==
    Generated =>
        LET produced == SpecificRecommendations(pstressors)
            s == Len(produced)
            k == Min(s, 4)
        IN  /\ SpecificPrecedeGeneral
            /\ SubSeq(precs, 1, SpecificCount) = SubSeq(produced, 1, k)
            /\ GeneralCount = (IF s < 5 THEN Min(2, 5 - k) ELSE 0)
            /\ Len(precs) = SpecificCount + GeneralCount
            /\ Len(precs) <= 5
            /\ Len(precs) = 5 <=> s \in {3, 4}

\* a result of 4 specific recommendations and 1 general one
C10_Witness ==
    /\ Generated
    /\ SpecificCount = 4
    /\ GeneralCount = 1

---------------------------------------------------------------------------
\* the bundle the catalogue assigns to a stressor name
BundleOf(name) ==
    CASE name \in {"Sleep Deficit", "Sleep Quality Impact"} -> "Sleep Optimization"
      [] name \in {"Digital Overload", "Screen Time Impact"} -> "Digital Wellbeing"
      [] name = "Low Mood Patterns"                          -> "Mood Enhancement"
      [] name = "Low Physical Activity"                      -> "Physical Activity"
      [] OTHER                                               -> "none"

\* the number of branches of the if/elif chain whose test a name passes
BranchesMatching(name) ==
    Cardinality({b \in 1..4 :
        CASE b = 1 -> In("Sleep", name)
          [] b = 2 -> In("Digital", name) \/ In("Screen", name)
          [] b = 3 -> In("Mood", name)
          [] b = 4 -> In("Activity", name) \/ InLower("steps", name)})

\* C11: every stressor of the report passes the test of exactly one branch of
\* the generator; the recommendations are the stressors mapped one-to-one and
\* in order to their bundles (Sleep* to Sleep Optimization, Digital*/Screen* to
\* Digital Wellbeing, *Mood* to Mood Enhancement, *Activity* to Physical
\* Activity), followed by at most one General Wellbeing; no two
\* recommendations have the same target.
C11_OneBundlePerStressor ==
    Analyzed =>
        /\ \A i \in 1..Len(Stressors) : BranchesMatching(Stressors[i].name) = 1
        /\ Len(Recommendations) \in {Len(Stressors), Len(Stressors) + 1}
        /\ \A i \in 1..Len(Stressors) :
               Recommendations[i].target = BundleOf(Stressors[i].name)
        /\ Len(Recommendations) = Len(Stressors) + 1 =>
               Recommendations[Len(Recommendations)].target = "General Wellbeing"
        /\ \A i, j \in 1..Len(Recommendations) :
               Recommendations[i].target = Recommendations[j].target => i = j

\* a report with a correlation stressor and a threshold stressor, each mapped
\* to its own bundle
C11_Witness ==
    /\ Analyzed
    /\ HasName(Stressors, "Screen Time Impact")
    /\ HasName(Stressors, "Sleep Deficit")
    /\ Len(Recommendations) = Len(Stressors)

---------------------------------------------------------------------------
(* Properties of the insights and of the endpoints.                        *)

Physical == report.physical
Emotional == report.emotional

HasTarget(recommendations, target) ==
    \E i \in 1..Len(recommendations) : recommendations[i].target = target

\* C14: the report for the three days of the /sample endpoint (sleepHours
\* 6.5, 7.2, 5.5; screenTimeMinutes 240, 180, 320; steps 7500, 9000, 3000;
\* mood 6, 7, 4) has the stressor "Sleep Deficit", does not have the stressor
\* "Low Physical Activity", and has a recommendation with the target
\* "Sleep Optimization".
C14_SampleReport ==
    (Analyzed /\ entries = SampleEntries) =>
        /\ Column(entries, "sleepHours") = <<65, 72, 55>>
        /\ Column(entries, "screenTimeMinutes") = <<240, 180, 320>>
        /\ Column(entries, "steps") = <<7500, 9000, 3000>>
        /\ Column(entries, "mood") = <<6, 7, 4>>
        /\ HasName(Stressors, "Sleep Deficit")
        /\ ~HasName(Stressors, "Low Physical Activity")
        /\ HasTarget(Recommendations, "Sleep Optimization")

\* the report of the /sample endpoint: mean sleep 6.4 hours, Sleep Deficit
\* of level 3
C14_Witness ==
    /\ Analyzed /\ entries = SampleEntries
    /\ SleepSum = 192
    /\ StressorNamed("Sleep Deficit").level = 3

\* C12 (as stated): a request with an empty entry list is answered by an
\* error result in place of the report.
C12_Original ==
    (pc = "done" /\ entries = <<>>) => report.kind = "error"

\* a request that is answered by an error result although its entry list is
\* not empty: a date string that does not parse
C12_ErrorForNonEmptyList ==
    pc = "done" /\ report.kind = "error" /\ entries /= <<>>

\* the answer to the empty entry list: a complete report without stressors,
\* with empty insights and the General Wellbeing recommendation
C12_EmptyListReport ==
    /\ pc = "done" /\ entries = <<>>
    /\ report.kind = "report"
    /\ Stressors = <<>>
    /\ Physical = NoPhysical /\ Emotional = NoEmotional
    /\ report.correlations = NoCorrelations
    /\ Recommendations = <<GeneralWellbeing>>

\* every sub-insight other than activity_patterns, the correlations and the
\* recommendations are in the report
RestOfReportProduced ==
    /\ Physical.sleep.present /\ Physical.screen_time.present
    /\ Emotional.mood_patterns.present /\ Emotional.energy_patterns.present
    /\ Emotional.sentiment.present /\ Emotional.stress_indicators.present
    /\ report.correlations.present
    /\ Len(Recommendations) >= 1

MoodColumn == Column(entries, "mood")

Trend == Emotional.mood_patterns.trend

\* The least-squares slope of the moods over the days 0, 1, .., N - 1 in
\* centred form: 2 * SlopeNum / SlopeDen with the weights 2i - N - 1.
SlopeNum == SumSeq([i \in 1..N |-> (2 * i - N - 1) * MoodColumn[i]])
SlopeDen == SumSeq([i \in 1..N |-> (2 * i - N - 1) * (2 * i - N - 1)])

\* C15: for a report on at least 3 rows the mood trend is "improving" iff the
\* least-squares slope of mood over the day index is above 0.1, "declining"
\* iff it is below -0.1 and "stable" otherwise; the moods 3, 5, 7 are
\* improving and 7, 5, 3 declining; for fewer than 3 rows no slope is fitted
\* and the trend is "stable".
C15_TrendFollowsSlope ==
    (Analyzed /\ N >= 1) =>
        /\ N >= 3 =>
            /\ Trend = "improving" <=> 20 * SlopeNum > SlopeDen
            /\ Trend = "declining" <=> 20 * SlopeNum < -SlopeDen
            /\ Trend \in {"improving", "declining", "stable"}
        /\ MoodColumn = <<3, 5, 7>> => Trend = "improving"
        /\ MoodColumn = <<7, 5, 3>> => Trend = "declining"
        /\ N < 3 => Trend = "stable"

\* the report for the moods 3, 5, 7
C15_Witness ==
    /\ Analyzed
    /\ MoodColumn = <<3, 5, 7>>
    /\ Trend = "improving"

\* all entries of the request are the same
ConstantEntries == \A i \in 1..N : entries[i] = entries[1]

\* C16 (as stated): the report for a constant entry list of any length >= 1
\* has mood volatility 0, energy volatility 0, sleep consistency 100 and the
\* mood trend "stable".
C16_Original ==
    (Analyzed /\ N >= 1 /\ ConstantEntries) =>
        /\ Emotional.mood_patterns.volatility = [defined |-> TRUE, value |-> 0]
        /\ Emotional.energy_patterns.volatility = [defined |-> TRUE, value |-> 0]
        /\ Physical.sleep.consistency = 10000
        /\ Trend = "stable"

\* the report for a single entry: both volatilities undefined (NaN) and the
\* sleep consistency 0
C16_SingleEntryReport ==
    /\ Analyzed /\ N = 1
    /\ ~Emotional.mood_patterns.volatility.defined
    /\ ~Emotional.energy_patterns.volatility.defined
    /\ Physical.sleep.consistency = 0
    /\ Trend = "stable"

\* the values of C16 hold for the constant entry lists of 2 and more entries
C16_ConstantListsFromTwoEntries ==
    (Analyzed /\ N >= 2 /\ ConstantEntries) =>
        /\ Emotional.mood_patterns.volatility = [defined |-> TRUE, value |-> 0]
        /\ Emotional.energy_patterns.volatility = [defined |-> TRUE, value |-> 0]
        /\ Physical.sleep.consistency = 10000
        /\ Trend = "stable"

\* emotionalState and dailyJournal are empty in every entry
EmptyTexts == \A i \in 1..N : entries[i].emotionalState = "" /\ entries[i].dailyJournal = ""

---------------------------------------------------------------------------
(* Properties of the sentiment step.                                       *)

Classified == spc = "classified"

\* C18: for the counts p of positive and n of negative mentions the sentiment
\* is "neutral" iff p + n = 0, and then the positive ratio is 0.5; otherwise
\* it is "positive" iff p / (p + n) > 0.6, "negative" iff p / (p + n) < 0.4
\* and "mixed" iff the ratio is in [0.4, 0.6], both ends included;
\* positive_ratio + negative_ratio = 100 in every case.
C18_SentimentFromCounts ==
    Classified =>
        LET p     == counts.positive
            total == counts.positive + counts.negative
        IN  /\ sentiment.overall = "neutral" <=> total = 0
            /\ total = 0 => sentiment.positive_ratio = 5000
            /\ total > 0 =>
                /\ sentiment.overall = "positive" <=> 10 * p > 6 * total
                /\ sentiment.overall = "negative" <=> 10 * p < 4 * total
                /\ sentiment.overall = "mixed" <=>
                       (4 * total <= 10 * p /\ 10 * p <= 6 * total)
            /\ sentiment.positive_ratio + sentiment.negative_ratio = 10000

\* 3 positive and 2 negative mentions: the ratio 0.6 is "mixed", 60 and 40
C18_Witness ==
    /\ Classified
    /\ counts = [positive |-> 3, negative |-> 2]
    /\ sentiment = [overall |-> "mixed", positive_ratio |-> 6000, negative_ratio |-> 4000]

---------------------------------------------------------------------------
(* Properties of the correlations.                                         *)

MoodFactors == report.correlations.mood_factors

\* the columns other than mood among correlation_columns
CandidateMetrics == {"energy", "steps", "heartRate", "sleepHours", "screenTimeMinutes"}

\* Pearson's r between a metric and mood over the entries of the request
MoodCorrelation(metric) == Pearson(Column(entries, metric), MoodColumn)

Listed(metric) == \E i \in 1..Len(MoodFactors) : MoodFactors[i].metric = metric

\* C19: every entry of mood_factors is for a candidate metric other than mood
\* whose correlation r with mood is defined and has |r| >= 0.3; a metric with
\* |r| < 0.3 or an undefined r is not listed; the relationship is "positive"
\* iff r > 0 and "negative" otherwise; the impact is "strong" iff |r| > 0.7,
\* "moderate" iff 0.5 < |r| <= 0.7 and "weak" iff 0.3 <= |r| <= 0.5; each
\* metric is listed at most once.
C19_MoodFactors ==
    (Analyzed /\ N >= 1) =>
        /\ \A i \in 1..Len(MoodFactors) :
               LET f == MoodFactors[i]
                   r == MoodCorrelation(f.metric)
               IN  /\ f.metric \in CandidateMetrics
                   /\ r.defined /\ AbsGE(r, 3, 10)
                   /\ f.relationship = (IF r.num > 0 THEN "positive" ELSE "negative")
                   /\ f.impact = "strong" <=> AbsGT(r, 7, 10)
                   /\ f.impact = "moderate" <=> (AbsGT(r, 5, 10) /\ ~AbsGT(r, 7, 10))
                   /\ f.impact = "weak" <=> (AbsGE(r, 3, 10) /\ ~AbsGT(r, 5, 10))
        /\ \A metric \in CandidateMetrics :
               LET r == MoodCorrelation(metric)
               IN  (~r.defined \/ ~AbsGE(r, 3, 10)) => ~Listed(metric)
        /\ \A i, j \in 1..Len(MoodFactors) :
               MoodFactors[i].metric = MoodFactors[j].metric => i = j

\* a report with a weak factor at r = 0.5 exactly
C19_Witness ==
    /\ Analyzed
    /\ \E i \in 1..Len(MoodFactors) :
           /\ MoodFactors[i].impact = "weak"
           /\ MoodFactors[i].correlation \in {50, -50}
           /\ ~AbsGT(MoodCorrelation(MoodFactors[i].metric), 5, 10)
           /\ AbsGE(MoodCorrelation(MoodFactors[i].metric), 5, 10)

---------------------------------------------------------------------------
(* Properties of the staged analyze_data call.                             *)

\* the order the stages are specified to run in
SpecifiedOrder ==
    <<"physical", "emotional", "correlations", "stressors", "recommendations", "report">>

\* the stages whose output a stage reads
Consumes(s) ==
    CASE s = "physical"        -> {}
      [] s = "emotional"       -> {}
      [] s = "correlations"    -> {"physical", "emotional"}
      [] s = "stressors"       -> {"correlations"}
      [] s = "recommendations" -> {"stressors"}
      [] s = "report"          -> {"physical", "emotional", "correlations",
                                   "stressors", "recommendations"}

\* the call has returned its report
Returned(c) == calls[c].pc = "report"

\* C21: within one analyze_data call no stage runs twice, a stage has run only
\* when every stage specified before it and every stage whose output it reads
\* has run, and the call that returns has run each stage exactly once and
\* returns the report of the pipeline on its entries
C21_StagesOnceInOrder ==
    \A c \in CallIds :
        LET call == calls[c]
        IN  /\ \A s \in Stages : call.runs[s] <= 1
            /\ \A i, j \in 1..Len(SpecifiedOrder) :
                   i < j /\ call.runs[SpecifiedOrder[j]] = 1
                       => call.runs[SpecifiedOrder[i]] = 1
            /\ \A s \in Stages :
                   call.runs[s] = 1 => \A t \in Consumes(s) : call.runs[t] = 1
            /\ Returned(c) =>
                   /\ \A s \in Stages : call.runs[s] = 1
                   /\ call.result.report = analyze_data(call.df, call.clustered)

\* a call has returned a report with stressors found from correlations
C21_Witness ==
    /\ Returned(1)
    /\ calls[1].result.report.correlations.present
    /\ calls[1].result.report.stressors /= <<>>
    /\ calls[1].result.report.recommendations /= <<>>

\* the report call c returns when it runs on its own
AloneResult(c) ==
    [report |-> analyze_data(calls[c].df, calls[c].clustered), session_id |-> SessionId]

\* C22: analyze_data calls interleaved on the shared instance do not
\* interfere: a call that returns, returns the report of the pipeline on its
\* own entries with the session id of the instance, whatever the other calls
\* are doing, and session_id keeps the value the constructor gave it
C22_CallsIndependent ==
    /\ session_id = SessionId
    /\ mpc = "idle"
    /\ candidates = <<>>
    /\ merged = <<>>
    /\ dpc = "idle"
    /\ table = NoTable
    /\ found = <<>>
    /\ clusters = 0
    /\ detected = <<>>
    /\ inbox = [a \in Agents |-> <<>>]
    /\ storage = [a \in Agents |-> [u \in Users |-> NoValue]]
    /\ sent = [k \in {MessageKinds[i] : i \in 1..Len(MessageKinds)} |-> [u \in Users |-> 0]]
    /\ issued = [u \in Users |-> 0]
    /\ stored = [u \in Users |-> 0]
    /\ fallback = FALSE
    /\ \A c \in CallIds : Returned(c) => calls[c].result = AloneResult(c)

\* two calls on different entries have both returned their reports
C22_Witness ==
    /\ Returned(1)
    /\ Returned(2)
    /\ Len(calls[1].result.report.stressors) > 1
    /\ calls[2].result.report.stressors = <<>>
    /\ calls[2].df /= <<>>

\* insights.physical.sleep.deficit of the report is true
DeficitFlag == Physical.sleep.present /\ Physical.sleep.deficit

\* insights.physical.screen_time.excessive of the report is true
ExcessiveFlag == Physical.screen_time.present /\ Physical.screen_time.excessive

\* C30: in every report the sleep deficit flag is true exactly when the
\* "Sleep Deficit" stressor is present, and the excessive screen time flag is
\* true exactly when the "Digital Overload" stressor is present
C30_FlagsAgreeWithStressors ==
    Analyzed =>
        /\ DeficitFlag <=> HasName(Stressors, "Sleep Deficit")
        /\ ExcessiveFlag <=> HasName(Stressors, "Digital Overload")

\* a report with the deficit flag and its stressor but without excessive
\* screen time, from entries that average below 7 hours of sleep
C30_Witness ==
    /\ Analyzed
    /\ DeficitFlag
    /\ HasName(Stressors, "Sleep Deficit")
    /\ Physical.screen_time.present
    /\ ~ExcessiveFlag
    /\ ~HasName(Stressors, "Digital Overload")

---------------------------------------------------------------------------
(* Properties of the pattern-based generator and detector of               *)
(* exampleAgents.py.                                                       *)

Pomodoro(factor) == <<Rec(factor, "Use the Pomodoro technique")>>

\* C29 as stated: a stressor with the factor 'unproductive_screen_time'
\* receives the single Pomodoro recommendation of its own branch
C29_Original ==
    gpc = "returned" =>
        \A i \in 1..Len(pstressors) :
            pstressors[i].factor = "unproductive_screen_time"
                => /\ FactorRecommendations(pstressors[i]) = Pomodoro(pstressors[i].factor)
                   /\ \E j \in 1..Len(precs) :
                          precs[j] = Pomodoro(pstressors[i].factor)[1]

\* what the code does: the 'screen_time' branch takes the factor, which
\* receives the two recommendations of that branch
C29_ShadowedBranch ==
    /\ gpc = "returned"
    /\ pstressors = <<[factor |-> "unproductive_screen_time"]>>
    /\ SelectSeq(precs, IsSpecific) =
           <<Rec("unproductive_screen_time", "Schedule 2-hour blocks of focused work"),
             Rec("unproductive_screen_time", "Use app blockers to limit social media use")>>

\* the position of the first candidate with the factor
FirstOccurrence(factor) ==
    CHOOSE i \in 1..Len(candidates) :
        /\ candidates[i].factor = factor
        /\ \A j \in 1..(i - 1) : candidates[j].factor /= factor

\* C23: identify_stressors returns one stressor for every factor among the
\* candidates and no two with the same factor; the stressor kept is a
\* candidate of that factor whose strength (whose frequency, for stressors
\* without a strength) no other candidate of the factor exceeds; the kept
\* stressors are in the order of the first occurrence of their factors
C23_MergeKeepsBestPerFactor ==
    mpc = "merged" =>
        /\ \A i, j \in 1..Len(merged) : merged[i].factor = merged[j].factor => i = j
        /\ {merged[i].factor : i \in 1..Len(merged)}
               = {candidates[i].factor : i \in 1..Len(candidates)}
        /\ \A i \in 1..Len(merged) :
               /\ \E k \in 1..Len(candidates) : candidates[k] = merged[i]
               /\ \A k \in 1..Len(candidates) :
                      candidates[k].factor = merged[i].factor =>
                          /\ candidates[k].hasStrength = merged[i].hasStrength
                          /\ merged[i].hasStrength
                                 => candidates[k].strength <= merged[i].strength
                          /\ ~merged[i].hasStrength
                                 => candidates[k].frequency <= merged[i].frequency
        /\ \A i, j \in 1..Len(merged) :
               i < j => FirstOccurrence(merged[i].factor) < FirstOccurrence(merged[j].factor)

\* three candidates of two factors were merged into two stressors, and the
\* stressor kept for the first factor is not the first candidate of it
C23_Witness ==
    /\ mpc = "merged"
    /\ Len(candidates) = 3
    /\ Len(merged) = 2
    /\ merged[1] /= candidates[1]
    /\ merged[1].factor = candidates[1].factor

\* identify_patterns has run its last step on the table
Clustered == dpc \in {"returned", "raised"}

ClusterPatterns == SelectSeq(detected, LAMBDA p : p.type = "cluster")

\* the label the specification gives a cluster of all the days of the table
SpecifiedQuality ==
    LET n     == Len(table)
        total == SumSeq(Column(table, "mood_level")) + SumSeq(Column(table, "energy_level"))
    IN  IF total > 14 * n THEN "good" ELSE IF total < 10 * n THEN "bad" ELSE "average"

\* C24 as stated: for every table of n >= 1 rows the clustering uses
\* k = min(5, n / 5) clusters with k >= 1, every reported cluster has at least
\* 3 days, and it is labelled good, bad or average by (mean mood + mean
\* energy) / 2 against 7 and 5
C24_Original ==
    Clustered /\ Len(table) >= 1 =>
        /\ clusters = Min(5, Len(table) \div 5)
        /\ clusters >= 1
        /\ dpc = "returned"
        /\ Len(ClusterPatterns) <= clusters
        /\ \A i \in 1..Len(ClusterPatterns) : ClusterPatterns[i].frequency >= 3
        /\ clusters = 1 =>
               /\ Len(ClusterPatterns) = 1
               /\ ClusterPatterns[1].day_quality = SpecifiedQuality

\* what the code does on fewer than 5 rows: k is 0, the clustering raises and
\* identify_patterns returns no pattern
C24_NoClusterBelowFiveRows ==
    /\ dpc = "raised"
    /\ Len(table) \in 1..4
    /\ clusters = 0
    /\ detected = <<>>
    /\ inbox = [a \in Agents |-> <<>>]
    /\ storage = [a \in Agents |-> [u \in Users |-> NoValue]]
    /\ sent = [k \in {MessageKinds[i] : i \in 1..Len(MessageKinds)} |-> [u \in Users |-> 0]]
    /\ issued = [u \in Users |-> 0]
    /\ stored = [u \in Users |-> 0]
    /\ fallback = FALSE

\* from 5 rows on the step is as stated
C24_FromFiveRows ==
    Clustered /\ Len(table) >= 5 =>
        /\ clusters = Min(5, Len(table) \div 5)
        /\ clusters >= 1
        /\ dpc = "returned"
        /\ \A i \in 1..Len(ClusterPatterns) : ClusterPatterns[i].frequency >= 3
        /\ clusters = 1 =>
               /\ Len(ClusterPatterns) = 1
               /\ ClusterPatterns[1].day_quality = SpecifiedQuality

\* the threshold patterns found so far
ThresholdFound == SelectSeq(found, LAMBDA p : p.type = "threshold")

\* the threshold of the split on a column
SplitAt(col) == IF col = "screen_time_hours" THEN 3 ELSE 8000

DaysAbove(col) == Cardinality({i \in 1..Len(table) : table[i][col] > SplitAt(col)})
DaysNotAbove(col) == Len(table) - DaysAbove(col)

\* C25 as stated: a threshold pattern is reported only when both groups of
\* the split contain more than 5 days (and the group means differ by more
\* than 0.5)
C25_Original ==
    dpc \in {"compared", "returned"} =>
        \A i \in 1..Len(ThresholdFound) :
            /\ DaysAbove(ThresholdFound[i].factor) > 5
            /\ DaysNotAbove(ThresholdFound[i].factor) > 5

\* what the code does: with 6 days above the threshold and a single day not
\* above it, the pattern is reported
C25_SmallOtherGroup ==
    /\ dpc = "compared"
    /\ \E i \in 1..Len(ThresholdFound) :
           /\ DaysAbove(ThresholdFound[i].factor) = 6
           /\ DaysNotAbove(ThresholdFound[i].factor) = 1

\* only the group above the threshold is tested for its size
C25_HighGroupTested ==
    dpc \in {"compared", "returned"} =>
        \A i \in 1..Len(ThresholdFound) :
            /\ DaysAbove(ThresholdFound[i].factor) > 5
            /\ DaysNotAbove(ThresholdFound[i].factor) >= 1

\* C26 as stated: a failure inside one step of the detector omits only that
\* step's patterns; the correlation and threshold patterns already found are
\* still returned
C26_Original ==
    Clustered =>
        \A i \in 1..Len(found) :
            found[i].type \in {"correlation", "threshold"}
                => \E j \in 1..Len(detected) : detected[j] = found[i]

\* what the code does: the clustering fails after correlation patterns were
\* found, and the empty list is returned
C26_PatternsDiscarded ==
    /\ dpc = "raised"
    /\ \E i \in 1..Len(found) : found[i].type = "correlation"
    /\ detected = <<>>
    /\ inbox = [a \in Agents |-> <<>>]
    /\ storage = [a \in Agents |-> [u \in Users |-> NoValue]]
    /\ sent = [k \in {MessageKinds[i] : i \in 1..Len(MessageKinds)} |-> [u \in Users |-> 0]]
    /\ issued = [u \in Users |-> 0]
    /\ stored = [u \in Users |-> 0]
    /\ fallback = FALSE

---------------------------------------------------------------------------
(* Properties of the agent pipeline.                                       *)

\* analysis_results_<user> as the client stored it
Results(u) == storage["client"][u]

\* C27 as stated: whenever the client has stored analysis_results_<user>,
\* the recommendations of the record were generated from the stressors of
\* the record
C27_Original ==
    \A u \in Users :
        Results(u).present
            => Results(u).recommendations = generate_recommendations(Results(u).stressors)

\* what the code does with two requests for one user in flight: the record
\* holds the stressors of one request and the recommendations of the other
C27_MixedRecord ==
    \E u \in Users :
        /\ sent["AnalysisRequest"][u] = 2
        /\ Results(u).present
        /\ Results(u).stressors = <<[factor |-> "stress"]>>
        /\ Results(u).recommendations = generate_recommendations(<<[factor |-> "poor_sleep"]>>)

\* with one request per user the record is consistent
C27_SingleRequestPerUser ==
    \A u \in Users :
        Results(u).present /\ sent["AnalysisRequest"][u] <= 1
            => Results(u).recommendations = generate_recommendations(Results(u).stressors)

\* the messages for a user follow one another in the order AnalysisRequest,
\* HealthData, RecommendationRequest, AnalysisComplete: a message of a kind
\* is sent only in response to one of the kind before it
MessagesInOrder ==
    \A u \in Users :
        /\ sent["HealthData"][u] <= sent["AnalysisRequest"][u]
        /\ sent["RecommendationRequest"][u] <= sent["HealthData"][u]
        /\ sent["AnalysisComplete"][u] <= sent["RecommendationRequest"][u]
        /\ stored[u] <= sent["AnalysisComplete"][u]

\* AnalysisComplete is in flight only when both agents hold their result
StoredBeforeComplete ==
    \A u \in Users :
        sent["AnalysisComplete"][u] > 0
            => storage["pattern"][u].present /\ storage["recommendation"][u].present

\* C28: with reliable delivery and every agent handling its queue, every
\* AnalysisRequest of at least one day is eventually followed by the client
\* storing analysis_results_<user>; the messages follow one another in the
\* order AnalysisRequest, HealthData, RecommendationRequest, AnalysisComplete;
\* AnalysisComplete is sent only after analysis_result_<user> and
\* recommendations_<user> were stored, and the client never takes one of its
\* empty defaults
C28_RequestLeadsToResults ==
    /\ [](MessagesInOrder /\ StoredBeforeComplete /\ ~fallback)
    /\ \A u \in Users : \A k \in 1..MaxRequests :
           (issued[u] >= k) ~> (stored[u] >= k)

\* a request of a week has led to a stored record with stressors and the
\* recommendations generated for them
C28_Witness ==
    \E u \in Users :
        /\ issued[u] >= 1
        /\ stored[u] >= 1
        /\ Results(u).present
        /\ Results(u).stressors /= <<>>
        /\ Results(u).recommendations = generate_recommendations(Results(u).stressors)

===========================================================================
